---- MODULE Spec2Model ----
(***************************************************************************)
(* Rules engine of game-master-ai: dice, entities, game/encounter state,   *)
(* the validation engine and the resolution engine, as a state machine.    *)
(* Operators keep the names of the Python functions they are translated    *)
(* from (a leading underscore is dropped).                                 *)
(***************************************************************************)
EXTENDS Integers, Sequences, FiniteSets, TLC

VARIABLES
    game_mode,          \* GlobalGameState.game_mode
    current_dungeon_id, \* GlobalGameState.current_dungeon_id
    current_room_id,    \* GlobalGameState.current_room_id
    players,            \* GlobalGameState.players (ids of the shared Entity objects)
    rested_rooms,       \* GlobalGameState.dungeon_state.rested_rooms (a list)
    entities,           \* the Entity objects, by entity_id
    participants,       \* EncounterState.entities (ids, in list order)
    round,              \* EncounterState.round
    initiative_order,   \* EncounterState.initiative_order
    active_entity_id,   \* EncounterState.active_entity_id
    last                \* the last engine call: its arguments and what it returned

vars == << game_mode, current_dungeon_id, current_room_id, players, rested_rooms,
           entities, participants, round, initiative_order, active_entity_id, last >>

globalVars == << game_mode, current_dungeon_id, current_room_id, players, rested_rooms >>
turnVars == << participants, round, initiative_order, active_entity_id >>

None == "None"

Max(a, b) == IF a >= b THEN a ELSE b
Min(a, b) == IF a <= b THEN a ELSE b

Range(s) == { s[i] : i \in 1..Len(s) }

RECURSIVE SumSeq(_)
SumSeq(s) == IF s = << >> THEN 0 ELSE Head(s) + SumSeq(Tail(s))

(***************************************************************************)
(* utils/dice.py.  A dice string is a sequence of one-character strings.   *)
(***************************************************************************)
Digits == << "0", "1", "2", "3", "4", "5", "6", "7", "8", "9" >>

IsDigit(c) == \E i \in 1..Len(Digits) : Digits[i] = c

DigitValue(c) == (CHOOSE i \in 1..Len(Digits) : Digits[i] = c) - 1

\* \d+ : a non-empty run of digits
AllDigits(s) == Len(s) > 0 /\ \A i \in 1..Len(s) : IsDigit(s[i])

\* int(...) of a run of digits
RECURSIVE ToInt(_)
ToInt(s) ==
    IF s = << >> THEN 0
    ELSE 10 * ToInt(SubSeq(s, 1, Len(s) - 1)) + DigitValue(s[Len(s)])

\* str.strip() on blanks
RECURSIVE Strip(_)
Strip(s) ==
    IF s = << >> THEN s
    ELSE IF Head(s) = " " THEN Strip(Tail(s))
    ELSE IF s[Len(s)] = " " THEN Strip(SubSeq(s, 1, Len(s) - 1))
    ELSE s

FirstIndex(s, chars) ==
    IF \E i \in 1..Len(s) : s[i] \in chars
    THEN CHOOSE i \in 1..Len(s) : s[i] \in chars /\ \A j \in 1..(i - 1) : s[j] \notin chars
    ELSE 0

\* _DICE_PATTERN = ^(\d+)d(\d+)([+\-]\d+)?$ : the three groups, or no match.
\* The count is what precedes the first "d", the sides what follows it up to
\* the first sign, the third group the sign and what follows it.
MatchGroups(count, sides, signed) ==
    IF ~AllDigits(count) \/ ~AllDigits(sides) THEN [matched |-> FALSE]
    ELSE IF signed # << >> /\ ~AllDigits(Tail(signed)) THEN [matched |-> FALSE]
    ELSE [matched |-> TRUE, g1 |-> count, g2 |-> sides, g3 |-> signed]

MatchSides(count, rest, g) ==
    IF g = 0 THEN MatchGroups(count, rest, << >>)
    ELSE MatchGroups(count, SubSeq(rest, 1, g - 1), SubSeq(rest, g, Len(rest)))

MatchCount(s, d) ==
    IF d = 0 THEN [matched |-> FALSE]
    ELSE MatchSides(SubSeq(s, 1, d - 1), SubSeq(s, d + 1, Len(s)),
                    FirstIndex(SubSeq(s, d + 1, Len(s)), {"+", "-"}))

DiceMatch(s) == MatchCount(s, FirstIndex(s, {"d"}))

\* the third group read without its sign
Modifier_unsigned(signed) ==
    IF signed = << >> THEN 0 ELSE ToInt(Tail(signed))

\* int(match.group(3)) if match.group(3) else 0
Modifier(signed) ==
    IF signed = << >> THEN 0
    ELSE IF Head(signed) = "-" THEN 0 - ToInt(Tail(signed))
    ELSE ToInt(Tail(signed))

\* the body of parse_dice_notation after the match
ParseMatch(m) ==
    IF ~m.matched THEN [raised |-> TRUE]
    ELSE [raised |-> FALSE, count |-> ToInt(m.g1), sides |-> ToInt(m.g2),
          modifier |-> Modifier(m.g3)]

\* parse_dice_notation: (count, sides, modifier), or ValueError
parse_dice_notation(dice_str) == ParseMatch(DiceMatch(Strip(dice_str)))

\* roll_d20: rng.randint(1, 20)
D20 == 1..20

(***************************************************************************)
(* Game content served by DataLoader (the JSON files are not part of the   *)
(* sources; the tables below follow the shapes the engines read).          *)
(***************************************************************************)
NoPayload == [type |-> None, duration |-> 0, magnitude |-> 0]

Poisoned == [type |-> "poisoned", duration |-> 2, magnitude |-> 1]
Stunned == [type |-> "stunned", duration |-> 2, magnitude |-> 1]
Burned == [type |-> "burned", duration |-> 1, magnitude |-> 2]
Strengthened == [type |-> "strengthened", duration |-> 2, magnitude |-> 3]
Weakened == [type |-> "weakened", duration |-> 2, magnitude |-> 2]
Fortified == [type |-> "fortified", duration |-> 3, magnitude |-> 12]
Vulnerable == [type |-> "vulnerable", duration |-> 3, magnitude |-> 9]
\* a payload whose magnitude is below zero
Soothing == [type |-> "poisoned", duration |-> 3, magnitude |-> 0 - 1]

\* DataLoader.attacks
Attacks ==
    [ staff_strike |-> [damage |-> << "1", "d", "2" >>, to_hit_modifier |-> 0,
                        status_effect |-> NoPayload],
      venom_bite   |-> [damage |-> << "1", "d", "2", "-", "2" >>, to_hit_modifier |-> 1,
                        status_effect |-> Poisoned],
      rusty_blade  |-> [damage |-> << "d", "6" >>, to_hit_modifier |-> 0,
                        status_effect |-> NoPayload] ]

\* DataLoader.spells (dice: the spell's "damage" or "heal" entry)
Spells ==
    [ fire_bolt    |-> [category |-> "damage", target |-> "enemy",
                        dice |-> << "1", "d", "2" >>, status_effect |-> NoPayload],
      heal         |-> [category |-> "heal", target |-> "ally",
                        dice |-> << "1", "d", "2" >>, status_effect |-> NoPayload],
      sleep        |-> [category |-> "status", target |-> "enemy",
                        dice |-> << >>, status_effect |-> Stunned],
      poison_cloud |-> [category |-> "status", target |-> "enemies",
                        dice |-> << >>, status_effect |-> Poisoned],
      mass_heal    |-> [category |-> "heal", target |-> "allies",
                        dice |-> << "1", "d", "1" >>, status_effect |-> NoPayload],
      second_wind  |-> [category |-> "heal", target |-> "self",
                        dice |-> << "1", "d", "1", "-", "3" >>, status_effect |-> NoPayload],
      hex          |-> [category |-> "status", target |-> "enemy",
                        dice |-> << >>, status_effect |-> NoPayload],
      wild_surge   |-> [category |-> "wild", target |-> "self",
                        dice |-> << >>, status_effect |-> NoPayload],
      void_ray     |-> [category |-> "damage", target |-> "everyone",
                        dice |-> << "1", "d", "2" >>, status_effect |-> NoPayload],
      static_jolt  |-> [category |-> "damage", target |-> "enemy",
                        dice |-> << "2", "d" >>, status_effect |-> NoPayload] ]

\* DataLoader.dungeons: one dungeon, its rooms
Dungeons ==
    [ crypt |-> [ rooms |->
        [ hall   |-> [connections |-> << "cellar", "shrine" >>, rest_allowed |-> FALSE],
          cellar |-> [connections |-> << "hall" >>, rest_allowed |-> TRUE],
          shrine |-> [connections |-> << "hall" >>, rest_allowed |-> TRUE],
          vault  |-> [connections |-> << >>, rest_allowed |-> FALSE] ] ] ]

\* DataLoader.get_attack / get_spell / get_dungeon: the entry, or None
HasAttack(attack_id) == attack_id \in DOMAIN Attacks
get_attack(attack_id) == Attacks[attack_id]
HasSpell(spell_id) == spell_id \in DOMAIN Spells
get_spell(spell_id) == Spells[spell_id]
HasDungeon(dungeon_id) == dungeon_id \in DOMAIN Dungeons
get_dungeon(dungeon_id) == Dungeons[dungeon_id]

(***************************************************************************)
(* utils/dice.py: rolling                                                  *)
(***************************************************************************)
\* parse_dice_notation on the dice strings of the content, computed once per
\* string (the parse is a pure function of the string)
ContentDice ==
    { Attacks[k].damage : k \in DOMAIN Attacks } \cup { Spells[k].dice : k \in DOMAIN Spells }
ParsedDice == [d \in ContentDice |-> parse_dice_notation(d)]
Parsed(dice_str) ==
    IF dice_str \in ContentDice THEN ParsedDice[dice_str] ELSE parse_dice_notation(dice_str)

\* roll_dice with the rng's draws given: ValueError from the parse or from
\* randint(1, 0), otherwise the RollResult
roll_dice(dice_str, rolls) ==
    LET p == Parsed(dice_str)
    IN  IF p.raised THEN [raised |-> TRUE, total |-> 0, rolls |-> << >>, modifier |-> 0]
        ELSE IF p.count > 0 /\ p.sides < 1
             THEN [raised |-> TRUE, total |-> 0, rolls |-> << >>, modifier |-> 0]
        ELSE [raised |-> FALSE, total |-> SumSeq(rolls) + p.modifier,
              rolls |-> rolls, modifier |-> p.modifier]

\* the draws rng.randint(1, sides) can produce for `count` dice
RollChoices(dice_str) ==
    LET p == Parsed(dice_str)
    IN  IF p.raised THEN { << >> }
        ELSE IF p.count > 0 /\ p.sides < 1 THEN { << >> }
        ELSE [1..p.count -> 1..p.sides]

(***************************************************************************)
(* models/entities.py                                                      *)
(***************************************************************************)
\* use_slot without the `current > 0` test
use_slot_unguarded(slots) ==
    [slots |-> [slots EXCEPT !.current = slots.current - 1], ok |-> TRUE]

\* SpellSlots.use_slot: the slots after the call and the value returned
use_slot(slots) ==
    IF slots.current > 0
    THEN [slots |-> [slots EXCEPT !.current = slots.current - 1], ok |-> TRUE]
    ELSE [slots |-> slots, ok |-> FALSE]

\* restore without the clamp to max
restore_unclamped(slots, amount) == [slots EXCEPT !.current = slots.current + amount]

\* SpellSlots.restore
restore(slots, amount) == [slots EXCEPT !.current = Min(slots.current + amount, slots.max)]

\* SpellSlots.restore_all
restore_all(slots) == [slots EXCEPT !.current = slots.max]

\* Entity.is_alive
is_alive(e) == e.hp > 0

\* the value returned by take_damage without the clamp to the hp left
take_damage_actual_unclamped(e, amount) == amount

\* Entity.take_damage: the entity after the call; take_damage_actual is the value returned
take_damage(e, amount) == [e EXCEPT !.hp = Max(0, e.hp - amount)]
take_damage_actual(e, amount) == Min(amount, e.hp)

\* Entity.heal: the entity after the call; heal_actual is the value returned
heal(e, amount) == [e EXCEPT !.hp = Min(e.hp + amount, e.max_hp)]
heal_actual(e, amount) == Min(amount, e.max_hp - e.hp)

\* Entity.add_status_effect
add_status_effect(e, effect) == [e EXCEPT !.status_effects = Append(@, effect)]

\* Entity.remove_status_effect: drops every effect of the type
remove_status_effect(e, effect_type) ==
    [e EXCEPT !.status_effects = SelectSeq(@, LAMBDA x : x.effect_type # effect_type)]

\* Entity.has_status_effect
has_status_effect(e, effect_type) ==
    \E i \in 1..Len(e.status_effects) : e.status_effects[i].effect_type = effect_type

\* decrement_status_effects keeping the effects whose duration has reached 0
decrement_status_effects_late(e) ==
    LET dec == [i \in 1..Len(e.status_effects) |->
                  [e.status_effects[i] EXCEPT !.duration = @ - 1]]
    IN  [e EXCEPT !.status_effects = SelectSeq(dec, LAMBDA x : x.duration >= 0)]

\* Entity.decrement_status_effects
decrement_status_effects(e) ==
    LET dec == [i \in 1..Len(e.status_effects) |->
                  [e.status_effects[i] EXCEPT !.duration = @ - 1]]
    IN  [e EXCEPT !.status_effects = SelectSeq(dec, LAMBDA x : x.duration > 0)]

RECURSIVE SumMagnitudes(_, _, _)
SumMagnitudes(effects, plus, minus) ==
    IF effects = << >> THEN 0
    ELSE (IF Head(effects).effect_type = plus THEN Head(effects).magnitude
          ELSE IF Head(effects).effect_type = minus THEN 0 - Head(effects).magnitude
          ELSE 0) + SumMagnitudes(Tail(effects), plus, minus)

\* get_ac_modifier without the "vulnerable" branch
get_ac_modifier_fortified(e) == SumMagnitudes(e.status_effects, "fortified", "")

\* Entity.get_ac_modifier
get_ac_modifier(e) == SumMagnitudes(e.status_effects, "fortified", "vulnerable")

\* Entity.get_attack_modifier
get_attack_modifier(e) ==
    e.attack_modifier + SumMagnitudes(e.status_effects, "strengthened", "weakened")

(***************************************************************************)
(* models/states.py                                                        *)
(***************************************************************************)
\* has_rested_in looking at the latest rested room only
has_rested_in_latest(rooms, room_id) == rooms # << >> /\ rooms[Len(rooms)] = room_id

\* DungeonState.has_rested_in
has_rested_in(rooms, room_id) == room_id \in Range(rooms)

\* DungeonState.mark_rested
mark_rested(rooms, room_id) ==
    IF room_id \notin Range(rooms) THEN Append(rooms, room_id) ELSE rooms

\* a lookup in every known entity instead of the encounter's own list
InEncounter_known(entity_id) == entity_id \in DOMAIN entities

\* EncounterState.get_entity: is the id among the entities of the encounter
InEncounter(entity_id) == entity_id \in Range(participants)

\* EncounterState.get_entity (the Entity object, when InEncounter)
get_entity(entity_id) == entities[entity_id]

\* EncounterState.get_living_enemies / get_living_players, in list order
get_living_enemies ==
    SelectSeq(participants,
              LAMBDA id : is_alive(entities[id]) /\ entities[id].entity_type = "enemy")
get_living_players ==
    SelectSeq(participants,
              LAMBDA id : is_alive(entities[id]) /\ entities[id].entity_type = "player")

\* list.index: the first position of x in s, 0 for ValueError
IndexOf(s, x) ==
    IF \E i \in 1..Len(s) : s[i] = x
    THEN CHOOSE i \in 1..Len(s) : s[i] = x /\ \A j \in 1..(i - 1) : s[j] # x
    ELSE 0

\* advance_turn counting a round when it leaves index 0 instead of reaching it
advance_turn_leaving(order, active, rnd) ==
    LET current_index == IndexOf(order, active) - 1
        next_index == (current_index + 1) % Len(order)
    IN  IF IndexOf(order, active) = 0 THEN [active |-> active, round |-> rnd]
        ELSE [active |-> order[next_index + 1],
              round |-> IF current_index = 0 THEN rnd + 1 ELSE rnd]

\* EncounterState.advance_turn on (initiative_order, active_entity_id, round)
advance_turn(order, active, rnd) ==
    LET current_index == IndexOf(order, active) - 1
        next_index == (current_index + 1) % Len(order)
    IN  IF IndexOf(order, active) = 0 THEN [active |-> active, round |-> rnd]
        ELSE [active |-> order[next_index + 1],
              round |-> IF next_index = 0 THEN rnd + 1 ELSE rnd]

(***************************************************************************)
(* engine/validation.py.  An Action is a record [actor_id, action_type,    *)
(* target_id, parameters]; parameters.get(key) is None for an absent key.  *)
(* `enc` says whether an EncounterState was passed (FALSE: None).          *)
(***************************************************************************)
\* `not x` on an optional string
Falsy(x) == x \in {None, ""}

\* ValidationResult.ok / ValidationResult.fail
ok == [is_valid |-> TRUE, errors |-> << >>]
fail(error) == [is_valid |-> FALSE, errors |-> << error >>]

\* _validate_move_action without the test of the current room's connections
validate_move_action_any_room(action) ==
    IF ~HasDungeon(current_dungeon_id) THEN fail("Current dungeon is not loaded.")
    ELSE LET rooms == get_dungeon(current_dungeon_id).rooms
         IN  IF current_room_id \notin DOMAIN rooms THEN fail("Current room does not exist.")
             ELSE IF Falsy(action.target_id)
                  THEN fail("Move action requires a target room.")
             ELSE IF action.target_id \notin DOMAIN rooms
                  THEN fail("Target room does not exist.")
             ELSE ok

\* ValidationEngine._validate_move_action
validate_move_action(action) ==
    IF ~HasDungeon(current_dungeon_id) THEN fail("Current dungeon is not loaded.")
    ELSE LET rooms == get_dungeon(current_dungeon_id).rooms
         IN  IF current_room_id \notin DOMAIN rooms THEN fail("Current room does not exist.")
             ELSE IF Falsy(action.target_id)
                  THEN fail("Move action requires a target room.")
             ELSE IF action.target_id \notin DOMAIN rooms
                  THEN fail("Target room does not exist.")
             ELSE IF action.target_id \notin Range(rooms[current_room_id].connections)
                  THEN fail("Target room is not connected to current room.")
             ELSE ok

\* ValidationEngine._validate_rest_action
validate_rest_action(action) ==
    IF action.parameters.rest_type \notin {"short", "long"}
    THEN fail("Invalid rest type. Use 'short' or 'long'.")
    ELSE IF ~HasDungeon(current_dungeon_id) THEN fail("Current dungeon is not loaded.")
    ELSE LET rooms == get_dungeon(current_dungeon_id).rooms
         IN  IF current_room_id \notin DOMAIN rooms THEN fail("Current room does not exist.")
             ELSE IF ~rooms[current_room_id].rest_allowed
                  THEN fail("Rest is not allowed in this room.")
             ELSE IF has_rested_in(rested_rooms, current_room_id)
                  THEN fail("This room has already been used for resting.")
             ELSE ok

\* _validate_attack_action without the test for a defeated target
validate_attack_action_any_hp(action, actor) ==
    LET attack_id == action.parameters.attack_id
    IN  IF Falsy(attack_id) THEN fail("Attack action requires an attack_id.")
        ELSE IF attack_id \notin Range(actor.known_attacks)
             THEN fail("Actor does not know this attack.")
        ELSE IF ~HasAttack(attack_id) THEN fail("Attack definition not found.")
        ELSE IF Falsy(action.target_id) THEN fail("Attack action requires a target.")
        ELSE IF ~InEncounter(action.target_id)
             THEN fail("Target does not exist in this encounter.")
        ELSE ok

\* ValidationEngine._validate_attack_action
validate_attack_action(action, actor) ==
    LET attack_id == action.parameters.attack_id
    IN  IF Falsy(attack_id) THEN fail("Attack action requires an attack_id.")
        ELSE IF attack_id \notin Range(actor.known_attacks)
             THEN fail("Actor does not know this attack.")
        ELSE IF ~HasAttack(attack_id) THEN fail("Attack definition not found.")
        ELSE IF Falsy(action.target_id) THEN fail("Attack action requires a target.")
        ELSE IF ~InEncounter(action.target_id)
             THEN fail("Target does not exist in this encounter.")
        ELSE IF ~is_alive(get_entity(action.target_id))
             THEN fail("Target is already defeated.")
        ELSE ok

\* _validate_cast_spell_action without the test for a defeated target
validate_cast_spell_action_any_hp(action, actor) ==
    LET spell_id == action.parameters.spell_id
    IN  IF Falsy(spell_id) THEN fail("Cast spell action requires a spell_id.")
        ELSE IF spell_id \notin Range(actor.known_spells)
             THEN fail("Actor does not know this spell.")
        ELSE IF ~HasSpell(spell_id) THEN fail("Spell definition not found.")
        ELSE IF actor.spell_slots.current <= 0 THEN fail("No spell slots available.")
        ELSE LET target_rule == get_spell(spell_id).target
             IN  IF target_rule \in {"enemy", "ally", "self"} /\ Falsy(action.target_id)
                 THEN fail("Spell requires a single target.")
                 ELSE IF target_rule \in {"enemies", "allies"} /\ ~Falsy(action.target_id)
                      THEN fail("AoE spell should not specify a single target.")
                 ELSE IF ~Falsy(action.target_id) /\ ~InEncounter(action.target_id)
                      THEN fail("Target does not exist in this encounter.")
                 ELSE ok

\* _validate_cast_spell_action with the AoE test made on the single-target rules
validate_cast_spell_action_aoe_target(action, actor) ==
    LET spell_id == action.parameters.spell_id
    IN  IF Falsy(spell_id) THEN fail("Cast spell action requires a spell_id.")
        ELSE IF spell_id \notin Range(actor.known_spells)
             THEN fail("Actor does not know this spell.")
        ELSE IF ~HasSpell(spell_id) THEN fail("Spell definition not found.")
        ELSE IF actor.spell_slots.current <= 0 THEN fail("No spell slots available.")
        ELSE LET target_rule == get_spell(spell_id).target
             IN  IF target_rule \in {"enemy", "ally", "self"} /\ Falsy(action.target_id)
                 THEN fail("Spell requires a single target.")
                 ELSE IF ~Falsy(action.target_id) /\ ~InEncounter(action.target_id)
                      THEN fail("Target does not exist in this encounter.")
                 ELSE IF ~Falsy(action.target_id) /\ ~is_alive(get_entity(action.target_id))
                      THEN fail("Target is already defeated.")
                 ELSE ok

\* ValidationEngine._validate_cast_spell_action
validate_cast_spell_action(action, actor) ==
    LET spell_id == action.parameters.spell_id
    IN  IF Falsy(spell_id) THEN fail("Cast spell action requires a spell_id.")
        ELSE IF spell_id \notin Range(actor.known_spells)
             THEN fail("Actor does not know this spell.")
        ELSE IF ~HasSpell(spell_id) THEN fail("Spell definition not found.")
        ELSE IF actor.spell_slots.current <= 0 THEN fail("No spell slots available.")
        ELSE LET target_rule == get_spell(spell_id).target
             IN  IF target_rule \in {"enemy", "ally", "self"} /\ Falsy(action.target_id)
                 THEN fail("Spell requires a single target.")
                 ELSE IF target_rule \in {"enemies", "allies"} /\ ~Falsy(action.target_id)
                      THEN fail("AoE spell should not specify a single target.")
                 ELSE IF ~Falsy(action.target_id) /\ ~InEncounter(action.target_id)
                      THEN fail("Target does not exist in this encounter.")
                 ELSE IF ~Falsy(action.target_id) /\ ~is_alive(get_entity(action.target_id))
                      THEN fail("Target is already defeated.")
                 ELSE ok

\* ValidationEngine._validate_exploration_action
validate_exploration_action(action) ==
    IF action.action_type \notin {"move", "explore", "rest"}
    THEN fail("Action is invalid in exploration mode.")
    ELSE IF action.action_type = "move" THEN validate_move_action(action)
    ELSE IF action.action_type = "explore" THEN ok
    ELSE validate_rest_action(action)

\* _validate_encounter_action without the turn-ownership test
validate_encounter_action_any_turn(action) ==
    IF action.action_type \notin {"attack", "cast_spell", "end_turn"}
    THEN fail("Action is invalid in encounter mode.")
    ELSE IF ~InEncounter(action.actor_id)
         THEN fail("Actor does not exist in this encounter.")
    ELSE LET actor == get_entity(action.actor_id)
         IN  IF ~is_alive(actor) THEN fail("Actor is not alive and cannot act.")
             ELSE IF has_status_effect(actor, "stunned")
                  THEN fail("Actor is stunned and cannot act.")
             ELSE IF action.action_type = "attack" THEN validate_attack_action(action, actor)
             ELSE IF action.action_type = "cast_spell"
                  THEN validate_cast_spell_action(action, actor)
             ELSE ok

\* ValidationEngine._validate_encounter_action
validate_encounter_action(action) ==
    IF action.action_type \notin {"attack", "cast_spell", "end_turn"}
    THEN fail("Action is invalid in encounter mode.")
    ELSE IF ~InEncounter(action.actor_id)
         THEN fail("Actor does not exist in this encounter.")
    ELSE LET actor == get_entity(action.actor_id)
         IN  IF ~is_alive(actor) THEN fail("Actor is not alive and cannot act.")
             ELSE IF active_entity_id # action.actor_id THEN fail("It is not the actor's turn.")
             ELSE IF has_status_effect(actor, "stunned")
                  THEN fail("Actor is stunned and cannot act.")
             ELSE IF action.action_type = "attack" THEN validate_attack_action(action, actor)
             ELSE IF action.action_type = "cast_spell"
                  THEN validate_cast_spell_action(action, actor)
             ELSE ok

\* validate_action without the test for a missing encounter state
validate_action_any_state(action, enc) ==
    IF game_mode = "exploration" THEN validate_exploration_action(action)
    ELSE IF game_mode = "encounter" THEN validate_encounter_action(action)
    ELSE fail("Unsupported game mode.")

\* ValidationEngine.validate_action
validate_action(action, enc) ==
    IF game_mode = "exploration" THEN validate_exploration_action(action)
    ELSE IF game_mode = "encounter"
         THEN IF ~enc THEN fail("Encounter state is required during combat.")
              ELSE validate_encounter_action(action)
    ELSE fail("Unsupported game mode.")

(***************************************************************************)
(* engine/resolution.py.  Each operator returns the state it leaves and    *)
(* the ResolutionResult; raised = TRUE stands for an exception leaving     *)
(* resolve_action instead of a result.                                     *)
(***************************************************************************)
\* ResolutionResult(success, narration), with the details the claims read
\* (targets: the entities the call applied damage, healing or a status to;
\* died: the entity ids passed to logger.log_entity_died during the call)
Result(success, narration) ==
    [success |-> success, raised |-> FALSE, narration |-> narration,
     hit |-> FALSE, roll |-> 0, total |-> 0, damage_applied |-> 0,
     targets |-> << >>, status_effect |-> NoPayload, died |-> << >>]

\* a ValueError propagating out of the call: no ResolutionResult is returned
\* (hit, roll and targets then tell how far the call had got)
Raise(narration) == [Result(FALSE, narration) EXCEPT !.raised = TRUE]

\* _apply_status_effect without the removal of the effects of the same type
apply_status_effect_stacking(target, payload, source_id, logger) ==
    add_status_effect(
        target,
        [effect_type |-> payload.type, duration |-> payload.duration,
         magnitude |-> payload.magnitude, source_id |-> source_id])

\* _apply_status_effect with the effect applied inside the `if logger` block
apply_status_effect_logged(target, payload, source_id, logger) ==
    IF logger
    THEN add_status_effect(
            remove_status_effect(target, payload.type),
            [effect_type |-> payload.type, duration |-> payload.duration,
             magnitude |-> payload.magnitude, source_id |-> source_id])
    ELSE target

\* ResolutionEngine._apply_status_effect (the logger, when given, is told of
\* the effect applied)
apply_status_effect(target, payload, source_id, logger) ==
    add_status_effect(
        remove_status_effect(target, payload.type),
        [effect_type |-> payload.type, duration |-> payload.duration,
         magnitude |-> payload.magnitude, source_id |-> source_id])

\* _resolve_attack with the status payload applied outside the `if hit` block
resolve_attack_status_outside(action, roll, rolls, logger) ==
    LET target_id == IF Falsy(action.target_id) THEN "" ELSE action.target_id
        attack_id == action.parameters.attack_id
    IN  IF ~InEncounter(action.actor_id) \/ ~InEncounter(target_id)
        THEN [entities |-> entities,
              result |-> Result(FALSE, "Attack failed: invalid actor or target.")]
        ELSE IF ~HasAttack(attack_id)
        THEN [entities |-> entities,
              result |-> Result(FALSE, "Attack failed: attack data not found.")]
        ELSE
        LET actor == get_entity(action.actor_id)
            target == get_entity(target_id)
            attack == get_attack(attack_id)
            total_to_hit == roll + get_attack_modifier(actor) + attack.to_hit_modifier
            target_ac == target.ac + get_ac_modifier(target)
            hit == total_to_hit >= target_ac
            damage_roll == roll_dice(attack.damage, rolls)
            damaged == IF hit THEN take_damage(target, damage_roll.total) ELSE target
            applied == take_damage_actual(target, damage_roll.total)
            after == IF attack.status_effect # NoPayload
                     THEN apply_status_effect(damaged, attack.status_effect,
                                              action.actor_id, logger)
                     ELSE damaged
        IN  IF hit /\ damage_roll.raised
            THEN [entities |-> entities,
                  result |-> [Raise("Invalid dice notation") EXCEPT !.hit = TRUE,
                                                                    !.roll = roll]]
            ELSE IF ~hit
            THEN [entities |-> [entities EXCEPT ![target_id] = after],
                  result |-> [Result(TRUE, "misses") EXCEPT !.roll = roll]]
            ELSE [entities |-> [entities EXCEPT ![target_id] = after],
                  result |-> [Result(TRUE, "hits") EXCEPT
                                !.hit = TRUE, !.roll = roll,
                                !.total = damage_roll.total,
                                !.damage_applied = applied,
                                !.targets = << target_id >>,
                                !.status_effect = attack.status_effect]]

\* `if logger and target.hp == 0: logger.log_entity_died(...)` at the end of
\* _resolve_attack, after a hit and after a miss alike
AttackDied(logger, target_id, target) ==
    IF logger /\ target.hp = 0 THEN << target_id >> ELSE << >>

\* ResolutionEngine._resolve_attack, given the d20 and the damage draws
resolve_attack(action, roll, rolls, logger) ==
    LET target_id == IF Falsy(action.target_id) THEN "" ELSE action.target_id
        attack_id == action.parameters.attack_id
    IN  IF ~InEncounter(action.actor_id) \/ ~InEncounter(target_id)
        THEN [entities |-> entities,
              result |-> Result(FALSE, "Attack failed: invalid actor or target.")]
        ELSE IF ~HasAttack(attack_id)
        THEN [entities |-> entities,
              result |-> Result(FALSE, "Attack failed: attack data not found.")]
        ELSE
        LET actor == get_entity(action.actor_id)
            target == get_entity(target_id)
            attack == get_attack(attack_id)
            total_to_hit == roll + get_attack_modifier(actor) + attack.to_hit_modifier
            target_ac == target.ac + get_ac_modifier(target)
            hit == total_to_hit >= target_ac
            damage_roll == roll_dice(attack.damage, rolls)
            damaged == take_damage(target, damage_roll.total)
            applied == take_damage_actual(target, damage_roll.total)
            after == IF attack.status_effect # NoPayload
                     THEN apply_status_effect(damaged, attack.status_effect,
                                              action.actor_id, logger)
                     ELSE damaged
        IN  IF ~hit
            THEN [entities |-> entities,
                  result |-> [Result(TRUE, "misses") EXCEPT
                                !.roll = roll,
                                !.died = AttackDied(logger, target_id, target)]]
            ELSE IF damage_roll.raised
            THEN [entities |-> entities,
                  result |-> [Raise("Invalid dice notation") EXCEPT !.hit = TRUE,
                                                                    !.roll = roll]]
            ELSE [entities |-> [entities EXCEPT ![target_id] = after],
                  result |-> [Result(TRUE, "hits") EXCEPT
                                !.hit = TRUE, !.roll = roll,
                                !.total = damage_roll.total,
                                !.damage_applied = applied,
                                !.targets = << target_id >>,
                                !.status_effect = attack.status_effect,
                                !.died = AttackDied(logger, target_id, after)]]

\* ResolutionEngine._select_spell_targets
select_spell_targets(spell, target_id, actor_id) ==
    LET single == IF Falsy(target_id) THEN "" ELSE target_id
    IN  IF spell.target = "self" THEN << actor_id >>
        ELSE IF spell.target \in {"enemy", "ally"}
             THEN IF InEncounter(single) THEN << single >> ELSE << >>
        ELSE IF spell.target = "enemies" THEN get_living_enemies
        ELSE IF spell.target = "allies" THEN get_living_players
        ELSE << >>

\* the loops of _resolve_cast_spell over the resolved targets
RECURSIVE DamageTargets(_, _, _)
DamageTargets(ents, targets, total) ==
    IF targets = << >> THEN ents
    ELSE DamageTargets([ents EXCEPT ![Head(targets)] = take_damage(@, total)],
                       Tail(targets), total)

\* the heal loop leaving after its first target
HealTargets_first(ents, targets, total) ==
    IF targets = << >> THEN ents
    ELSE [ents EXCEPT ![Head(targets)] = heal(@, total)]

RECURSIVE HealTargets(_, _, _)
HealTargets(ents, targets, total) ==
    IF targets = << >> THEN ents
    ELSE HealTargets([ents EXCEPT ![Head(targets)] = heal(@, total)],
                     Tail(targets), total)

RECURSIVE StatusTargets(_, _, _, _, _)
StatusTargets(ents, targets, payload, source_id, logger) ==
    IF targets = << >> THEN ents
    ELSE StatusTargets(
            [ents EXCEPT ![Head(targets)] = apply_status_effect(@, payload, source_id,
                                                                logger)],
            Tail(targets), payload, source_id, logger)

\* `if logger and target.hp == 0: logger.log_entity_died(...)` in the damage loop
SpellDied(logger, ents, targets) ==
    IF logger THEN SelectSeq(targets, LAMBDA t : ents[t].hp = 0) ELSE << >>

\* resolve_start_of_turn logs the triggered effects only: no log_entity_died call
start_of_turn_died(e) == << >>

\* ResolutionEngine._resolve_cast_spell, given the dice draws
resolve_cast_spell(action, rolls, logger) ==
    LET spell_id == action.parameters.spell_id
    IN  IF ~InEncounter(action.actor_id)
        THEN [entities |-> entities, result |-> Result(FALSE, "Spell failed: invalid actor.")]
        ELSE IF ~HasSpell(spell_id)
        THEN [entities |-> entities,
              result |-> Result(FALSE, "Spell failed: spell data not found.")]
        ELSE
        LET spell == get_spell(spell_id)
            used == use_slot(get_entity(action.actor_id).spell_slots)
            ents == [entities EXCEPT ![action.actor_id].spell_slots = used.slots]
            targets == select_spell_targets(spell, action.target_id, action.actor_id)
            dice_roll == roll_dice(spell.dice, rolls)
            done == [Result(TRUE, "casts") EXCEPT !.targets = targets]
        IN  IF ~used.ok
            THEN [entities |-> entities,
                  result |-> Result(FALSE, "Spell failed: no spell slots available.")]
            ELSE IF targets = << >>
            THEN [entities |-> ents, result |-> Result(FALSE, "Spell failed: no valid targets.")]
            ELSE IF spell.category \in {"damage", "heal"} /\ dice_roll.raised
            THEN [entities |-> ents,
                  result |-> [Raise("Invalid dice notation") EXCEPT !.targets = targets]]
            ELSE IF spell.category = "damage"
            THEN [entities |-> DamageTargets(ents, targets, dice_roll.total),
                  result |-> [done EXCEPT
                                !.total = dice_roll.total,
                                !.died = SpellDied(logger,
                                                   DamageTargets(ents, targets,
                                                                 dice_roll.total),
                                                   targets)]]
            ELSE IF spell.category = "heal"
            THEN [entities |-> HealTargets(ents, targets, dice_roll.total),
                  result |-> [done EXCEPT !.total = dice_roll.total]]
            ELSE IF spell.category = "status"
            THEN IF spell.status_effect = NoPayload
                 THEN [entities |-> ents,
                       result |-> Result(FALSE, "Spell failed: missing status effect.")]
                 ELSE [entities |-> StatusTargets(ents, targets, spell.status_effect,
                                                  action.actor_id, logger),
                       result |-> [done EXCEPT !.status_effect = spell.status_effect]]
            ELSE [entities |-> ents, result |-> Result(FALSE, "Spell failed: unknown category.")]

\* the body of _resolve_rest healing int(max_hp * 0.25) without the minimum of 1
rest_player_unfloored(player, rest_type) ==
    IF rest_type = "short"
    THEN LET healed == heal(player, player.max_hp \div 4)
         IN  IF healed.spell_slots.max > 0
             THEN [healed EXCEPT !.spell_slots = restore(@, 1)]
             ELSE healed
    ELSE [player EXCEPT !.hp = player.max_hp, !.spell_slots = restore_all(@)]

\* the per-player body of _resolve_rest
rest_player(player, rest_type) ==
    IF rest_type = "short"
    THEN LET heal_amount == Max(1, player.max_hp \div 4)   \* int(max_hp * 0.25)
             healed == heal(player, heal_amount)
         IN  IF healed.spell_slots.max > 0
             THEN [healed EXCEPT !.spell_slots = restore(@, 1)]
             ELSE healed
    ELSE [player EXCEPT !.hp = player.max_hp, !.spell_slots = restore_all(@)]

RECURSIVE RestPlayers(_, _, _)
RestPlayers(ents, ids, rest_type) ==
    IF ids = << >> THEN ents
    ELSE RestPlayers([ents EXCEPT ![Head(ids)] = rest_player(@, rest_type)],
                     Tail(ids), rest_type)

\* ResolutionEngine._resolve_rest (the logger, when given, is told of the rest)
resolve_rest(action, logger) ==
    LET rest_type == action.parameters.rest_type
    IN  IF rest_type \notin {"short", "long"}      \* RestType(value) raises ValueError
        THEN [entities |-> entities, rested_rooms |-> rested_rooms,
              result |-> Raise("not a valid RestType")]
        ELSE [entities |-> RestPlayers(entities, players, rest_type),
              rested_rooms |-> mark_rested(rested_rooms, current_room_id),
              result |-> [Result(TRUE, "rest") EXCEPT !.targets = players]]

\* the loop of resolve_start_of_turn over list(entity.status_effects)
RECURSIVE TriggerEffects(_, _)
TriggerEffects(e, effects) ==
    IF effects = << >> THEN e
    ELSE IF Head(effects).effect_type \in {"poisoned", "burned"}
         THEN TriggerEffects(take_damage(e, Max(0, Head(effects).magnitude)), Tail(effects))
         ELSE TriggerEffects(e, Tail(effects))

\* ResolutionEngine.resolve_start_of_turn: the entity after the tick
resolve_start_of_turn(e) == decrement_status_effects(TriggerEffects(e, e.status_effects))

\* resolve_action on END_TURN, running the start-of-turn tick of the entity
\* whose turn begins
resolve_action_ticking(action, enc, roll, rolls, logger) ==
    LET same == [entities |-> entities, rested_rooms |-> rested_rooms,
                 active |-> active_entity_id, round |-> round]
        t == advance_turn(initiative_order, active_entity_id, round)
    IN  IF game_mode = "encounter" /\ enc /\ action.action_type = "end_turn"
        THEN [same EXCEPT !.active = t.active, !.round = t.round,
                          !.entities = IF t.active \in DOMAIN entities
                                       THEN [entities EXCEPT ![t.active] =
                                               resolve_start_of_turn(@)]
                                       ELSE entities]
             @@ [result |-> Result(TRUE, "Turn ended.")]
        ELSE same @@ [result |-> Result(FALSE, "Unsupported action type.")]

\* resolve_action ending the actor's turn after a resolved ATTACK
resolve_action_advancing(action, enc, roll, rolls, logger) ==
    LET same == [entities |-> entities, rested_rooms |-> rested_rooms,
                 active |-> active_entity_id, round |-> round]
        t == advance_turn(initiative_order, active_entity_id, round)
    IN  IF game_mode = "exploration"
        THEN IF action.action_type = "rest"
             THEN LET r == resolve_rest(action, logger)
                  IN  [same EXCEPT !.entities = r.entities, !.rested_rooms = r.rested_rooms]
                      @@ [result |-> r.result]
             ELSE same @@ [result |-> Result(FALSE,
                     "Exploration actions are resolved in the exploration engine.")]
        ELSE IF game_mode # "encounter" \/ ~enc
        THEN same @@ [result |-> Result(FALSE,
                     "Encounter state is required to resolve combat actions.")]
        ELSE IF action.action_type = "attack"
        THEN LET r == resolve_attack(action, roll, rolls, logger)
             IN  [same EXCEPT !.entities = r.entities, !.active = t.active,
                              !.round = t.round] @@ [result |-> r.result]
        ELSE IF action.action_type = "cast_spell"
        THEN LET r == resolve_cast_spell(action, rolls, logger)
             IN  [same EXCEPT !.entities = r.entities] @@ [result |-> r.result]
        ELSE IF action.action_type = "end_turn"
        THEN [same EXCEPT !.active = t.active, !.round = t.round]
             @@ [result |-> Result(TRUE, "Turn ended.")]
        ELSE same @@ [result |-> Result(FALSE, "Unsupported action type.")]

\* ResolutionEngine.resolve_action: the state it leaves and its result
resolve_action(action, enc, roll, rolls, logger) ==
    LET same == [entities |-> entities, rested_rooms |-> rested_rooms,
                 active |-> active_entity_id, round |-> round]
    IN  IF game_mode = "exploration"
        THEN IF action.action_type = "rest"
             THEN LET r == resolve_rest(action, logger)
                  IN  [same EXCEPT !.entities = r.entities, !.rested_rooms = r.rested_rooms]
                      @@ [result |-> r.result]
             ELSE same @@ [result |-> Result(FALSE,
                     "Exploration actions are resolved in the exploration engine.")]
        ELSE IF game_mode # "encounter" \/ ~enc
        THEN same @@ [result |-> Result(FALSE,
                     "Encounter state is required to resolve combat actions.")]
        ELSE IF action.action_type = "attack"
        THEN LET r == resolve_attack(action, roll, rolls, logger)
             IN  [same EXCEPT !.entities = r.entities] @@ [result |-> r.result]
        ELSE IF action.action_type = "cast_spell"
        THEN LET r == resolve_cast_spell(action, rolls, logger)
             IN  [same EXCEPT !.entities = r.entities] @@ [result |-> r.result]
        ELSE IF action.action_type = "end_turn"
        THEN LET t == advance_turn(initiative_order, active_entity_id, round)
             IN  [same EXCEPT !.active = t.active, !.round = t.round]
                 @@ [result |-> Result(TRUE, "Turn ended.")]
        ELSE same @@ [result |-> Result(FALSE, "Unsupported action type.")]

\* the dice string resolve_action rolls for the action, if it gets that far
ActionDice(action) ==
    IF action.action_type = "attack" /\ HasAttack(action.parameters.attack_id)
    THEN get_attack(action.parameters.attack_id).damage
    ELSE IF action.action_type = "cast_spell" /\ HasSpell(action.parameters.spell_id)
    THEN get_spell(action.parameters.spell_id).dice
    ELSE << >>

\* the d20 draws resolve_action can make for the action (none unless it attacks)
ActionD20(action) == IF action.action_type = "attack" THEN D20 ELSE {0}

(***************************************************************************)
(* models/actions.py: the typed factories                                  *)
(***************************************************************************)
NoParams == [attack_id |-> None, spell_id |-> None, rest_type |-> None]

MoveAction(actor_id, target_room_id) ==
    [actor_id |-> actor_id, action_type |-> "move", target_id |-> target_room_id,
     parameters |-> NoParams]
AttackAction(actor_id, target_entity_id, attack_id) ==
    [actor_id |-> actor_id, action_type |-> "attack", target_id |-> target_entity_id,
     parameters |-> [NoParams EXCEPT !.attack_id = attack_id]]
CastSpellAction(actor_id, spell_id, target_entity_id) ==
    [actor_id |-> actor_id, action_type |-> "cast_spell", target_id |-> target_entity_id,
     parameters |-> [NoParams EXCEPT !.spell_id = spell_id]]
RestAction(actor_id, rest_type) ==
    [actor_id |-> actor_id, action_type |-> "rest", target_id |-> None,
     parameters |-> [NoParams EXCEPT !.rest_type = rest_type]]
EndTurnAction(actor_id) ==
    [actor_id |-> actor_id, action_type |-> "end_turn", target_id |-> None,
     parameters |-> NoParams]
ExploreAction(actor_id) ==
    [actor_id |-> actor_id, action_type |-> "explore", target_id |-> None,
     parameters |-> NoParams]

(***************************************************************************)
(* Entities and inputs of the runs                                         *)
(***************************************************************************)
EntityIds == {"p1", "p2", "e1", "e2"}

\* tests/test_resolution_engine.py _make_player / _make_enemy, with small numbers
Player(hp, max_hp, slots, max_slots, effects) ==
    [entity_type |-> "player", hp |-> hp, max_hp |-> max_hp, ac |-> 12,
     attack_modifier |-> 2, known_attacks |-> << "staff_strike" >>,
     known_spells |-> << "fire_bolt", "heal", "sleep", "poison_cloud", "mass_heal",
                         "second_wind", "hex", "wild_surge", "void_ray", "static_jolt",
                         "wish" >>,
     spell_slots |-> [current |-> slots, max |-> max_slots],
     status_effects |-> effects]
Enemy(hp, max_hp, effects) ==
    [entity_type |-> "enemy", hp |-> hp, max_hp |-> max_hp, ac |-> 11,
     attack_modifier |-> 1, known_attacks |-> << "venom_bite", "rusty_blade" >>,
     known_spells |-> << >>,
     spell_slots |-> [current |-> 0, max |-> 0],
     status_effects |-> effects]

Effect(payload, source_id) ==
    [effect_type |-> payload.type, duration |-> payload.duration,
     magnitude |-> payload.magnitude, source_id |-> source_id]

NoAction == [actor_id |-> None, action_type |-> None, target_id |-> None,
             parameters |-> NoParams]

\* agent/parser.py ParsedIntent: the fields the mapper reads
ParsedIntent(intent, target_id, spell_id, attack_id, rest_type, room_id) ==
    [intent |-> intent, target_id |-> target_id, spell_id |-> spell_id,
     attack_id |-> attack_id, rest_type |-> rest_type, room_id |-> room_id]

NoParsed == ParsedIntent("unknown", None, None, None, None, None)

\* ActionMappingResult (action = NoAction: `action=None`; raised: the call
\* ended in an exception instead of a result)
ActionMappingResult(action, errors, needs_clarification, clarification_prompt) ==
    [action |-> action, errors |-> errors, needs_clarification |-> needs_clarification,
     clarification_prompt |-> clarification_prompt, raised |-> FALSE]

NoMapping == ActionMappingResult(NoAction, << >>, FALSE, None)

\* the arguments of a map_intent call: the actor (an entity id, or None), and
\* whether a global state and a data loader were given
NoMapper == [actor |-> None, global_state |-> FALSE, data_loader |-> FALSE]

\* a serialization round trip: the class, the object, to_dict of it and
\* from_dict of that
RoundTrip(kind, value, data, restored) ==
    [kind |-> kind, value |-> value, data |-> data, restored |-> restored]

NoRoundTrip == RoundTrip(None, None, None, None)

\* a roll_dice call: what the string was written from, the string, the outcome
NoRoll == [input |-> None, dice_str |-> << >>,
           result |-> [raised |-> FALSE, total |-> 0, rolls |-> << >>, modifier |-> 0]]

\* a take_damage / heal call: the entity, the amount, the hp before the call
\* and the value returned
EntityCall(entity_id, amount, hp_before, returned) ==
    [entity_id |-> entity_id, amount |-> amount, hp_before |-> hp_before,
     returned |-> returned]

NoEntityCall == EntityCall(None, 0, 0, 0)

\* what resolve_action leaves when it is called without a logger: the state
\* and the ResolutionResult
Unlogged(r) ==
    [given |-> TRUE, entities |-> r.entities, rested_rooms |-> r.rested_rooms,
     active |-> r.active, round |-> r.round, result |-> r.result]
NoUnlogged ==
    [given |-> FALSE, entities |-> << >>, rested_rooms |-> << >>,
     active |-> None, round |-> 0, result |-> Result(FALSE, "")]

\* a _pick_intent call: the scores in the order of the scores dict (move,
\* attack, cast_spell, rest, end_turn, explore) and the tuple returned
Picked(intent, confidence, is_ambiguous) ==
    [intent |-> intent, confidence |-> confidence, is_ambiguous |-> is_ambiguous]
NoPick == [scores |-> << >>, result |-> Picked("unknown", 0, FALSE)]

\* a _find_name_match call: the normalized input, the name map as its items
\* in the order of the dict, and the (item_id, name) returned (found = FALSE:
\* None was returned)
Matched(item_id, name) == [found |-> TRUE, item_id |-> item_id, name |-> name]
NoMatch == [found |-> FALSE, item_id |-> None, name |-> << >>]
NoNameMatch == [normalized |-> << >>, name_map |-> << >>, result |-> NoMatch]

\* `last` before any call
NoCall == [op |-> "init", action |-> NoAction, enc |-> FALSE, validation |-> ok,
           result |-> Result(FALSE, ""),
           parsed |-> NoParsed, mapper |-> NoMapper, mapping |-> NoMapping,
           dict |-> NoRoundTrip, roll |-> NoRoll, call |-> NoEntityCall,
           unlogged |-> NoUnlogged, pick |-> NoPick, match |-> NoNameMatch]

\* the calls made on a drawn state: (action, enc), chosen by the game mode so
\* that every branch of both engines is entered; one call per drawn state
ExplorationActions ==
    { MoveAction("p1", r) : r \in {None, "hall", "cellar", "shrine", "attic"} }
    \cup { RestAction(a, k) : a \in {"p1", "ghost"}, k \in {None, "short", "long", "nap"} }
    \cup { ExploreAction("p1") }
EncounterActions ==
    { AttackAction("p1", t, k) : t \in {None, "p1", "p2", "e1"},
        k \in {None, "staff_strike", "venom_bite", "rusty_blade", "bite"} }
    \cup { AttackAction("e1", t, k) : t \in {"p1", "e1"}, k \in {"venom_bite", "rusty_blade"} }
    \cup { AttackAction("p2", "e1", k) : k \in {None, "staff_strike"} }
    \cup { CastSpellAction("p1", k, t) : t \in {None, "p1", "e1"},
             k \in (DOMAIN Spells) \cup {None, "wish"} }
    \cup { CastSpellAction("p1", k, "p2") : k \in {"fire_bolt", "heal", "mass_heal"} }
    \cup { CastSpellAction(a, k, t) : a \in {"p2", "e1"}, t \in {None, "p1"},
             k \in {"fire_bolt", "mass_heal"} }
    \cup { EndTurnAction(a) : a \in {"p1", "p2", "e1"} }
ForeignActions ==
    { MoveAction("p1", "cellar"), RestAction("p1", "short"), ExploreAction("p1"),
      AttackAction("p1", "e1", "staff_strike"), CastSpellAction("p1", "fire_bolt", "e1"),
      EndTurnAction("p1") }
CallInputs ==
    IF last.op # "init" THEN {}
    ELSE IF game_mode = "exploration"
    THEN (ExplorationActions \cup ForeignActions) \X BOOLEAN
    ELSE (EncounterActions \X {TRUE}) \cup (ForeignActions \X BOOLEAN)

\* the actions issued during a run: what each participant can be made to do
RunActions ==
    { AttackAction("p1", t, "staff_strike") : t \in {"p1", "e1"} }
    \cup { AttackAction("e1", t, "venom_bite") : t \in {"p1", "e1", "ghost"} }
    \cup { AttackAction("e1", "p1", "bite") }
    \cup { CastSpellAction("p1", k, t) : t \in {None, "p1", "e1"},
             k \in (DOMAIN Spells) \ {"static_jolt"} }
    \cup { CastSpellAction("e1", "fire_bolt", "p1"), CastSpellAction("ghost", "heal", "p1") }
    \cup { RestAction("p1", k) : k \in {"short", "long"} }
    \cup { MoveAction("p1", r) : r \in {"hall", "cellar", "shrine"} }
TurnActions == { EndTurnAction(a) : a \in EntityIds \cup {"ghost"} }

(***************************************************************************)
(* agent/action_mapper.py.  The actor is an entity id (None: no actor);     *)
(* gs, enc and loader tell whether the global state, the encounter state   *)
(* and the data loader were given.                                         *)
(***************************************************************************)
\* ActionMappingResult.ok / fail / clarify
mapping_ok(action) == ActionMappingResult(action, << >>, FALSE, None)
mapping_fail(error) == ActionMappingResult(NoAction, << error >>, FALSE, None)
clarify(prompt, error) == ActionMappingResult(NoAction, << error >>, TRUE, prompt)

\* _infer_single_enemy returning the first living enemy, however many there are
infer_single_enemy_first(enc) ==
    IF ~enc THEN None
    ELSE IF Len(get_living_enemies) >= 1 THEN get_living_enemies[1]
    ELSE None

\* ActionMapper._infer_single_enemy
infer_single_enemy(enc) ==
    IF ~enc THEN None
    ELSE IF Len(get_living_enemies) = 1 THEN get_living_enemies[1]
    ELSE None

\* _infer_single_connected_room taking the first connection of several
infer_single_connected_room_first(gs, loader) ==
    IF ~loader \/ ~gs THEN None
    ELSE IF ~HasDungeon(current_dungeon_id) THEN None
    ELSE IF current_room_id \notin DOMAIN get_dungeon(current_dungeon_id).rooms THEN None
    ELSE IF Len(get_dungeon(current_dungeon_id).rooms[current_room_id].connections) >= 1
    THEN get_dungeon(current_dungeon_id).rooms[current_room_id].connections[1]
    ELSE None

\* ActionMapper._infer_single_connected_room
infer_single_connected_room(gs, loader) ==
    IF ~loader \/ ~gs THEN None
    ELSE IF ~HasDungeon(current_dungeon_id) THEN None
    ELSE IF current_room_id \notin DOMAIN get_dungeon(current_dungeon_id).rooms THEN None
    ELSE IF Len(get_dungeon(current_dungeon_id).rooms[current_room_id].connections) = 1
    THEN get_dungeon(current_dungeon_id).rooms[current_room_id].connections[1]
    ELSE None

\* ActionMapper._get_spell_target_rule
get_spell_target_rule(spell_id, loader) ==
    IF ~loader THEN None
    ELSE IF ~HasSpell(spell_id) THEN None
    ELSE get_spell(spell_id).target

\* _get_living_allies taking the players as everyone's allies
get_living_allies_players(actor) == get_living_players

\* ActionMapper._get_living_allies
get_living_allies(actor) ==
    IF entities[actor].entity_type = "player" THEN get_living_players
    ELSE get_living_enemies

\* ActionMapper._infer_spell_target
infer_spell_target(actor, enc, target_rule) ==
    IF ~enc \/ target_rule = None THEN None
    ELSE IF target_rule = "enemy" THEN infer_single_enemy(enc)
    ELSE IF target_rule = "ally" /\ Len(get_living_allies(actor)) = 1
    THEN get_living_allies(actor)[1]
    ELSE None

\* ActionMapper._map_move
map_move(parsed, actor, gs, loader) ==
    IF actor = None THEN mapping_fail("Actor is required to move.")
    ELSE LET target_room_id == IF parsed.room_id = None
                               THEN infer_single_connected_room(gs, loader)
                               ELSE parsed.room_id
         IN  IF target_room_id = None
             THEN clarify("Where do you want to go?", "Move target room is missing.")
             ELSE mapping_ok(MoveAction(actor, target_room_id))

\* ActionMapper._map_attack
map_attack(parsed, actor, enc) ==
    IF actor = None THEN mapping_fail("Actor is required to attack.")
    ELSE LET attack_id == IF parsed.attack_id = None
                             /\ Len(entities[actor].known_attacks) = 1
                          THEN entities[actor].known_attacks[1]
                          ELSE parsed.attack_id
             target_id == IF parsed.target_id = None THEN infer_single_enemy(enc)
                          ELSE parsed.target_id
         IN  IF attack_id = None
             THEN clarify("Which attack do you want to use?", "Attack id is missing.")
             ELSE IF target_id = None
             THEN clarify("Which target do you want to attack?",
                          "Attack target is missing.")
             ELSE mapping_ok(AttackAction(actor, target_id, attack_id))

\* the target of _map_cast_spell with a parsed target surviving an AoE rule
SpellTarget_kept(parsed, actor, enc, target_rule) ==
    IF target_rule = "self" THEN actor
    ELSE IF parsed.target_id = None /\ target_rule \notin {"enemies", "allies"}
    THEN infer_spell_target(actor, enc, target_rule)
    ELSE parsed.target_id

\* the target of _map_cast_spell with `self` filling in a missing target only
SpellTarget_unforced(parsed, actor, enc, target_rule) ==
    IF target_rule \in {"enemies", "allies"} THEN None
    ELSE IF target_rule = "self" /\ parsed.target_id = None THEN actor
    ELSE IF parsed.target_id = None THEN infer_spell_target(actor, enc, target_rule)
    ELSE parsed.target_id

\* lines 165-181 of _map_cast_spell: the target, once the spell id is known
SpellTarget(parsed, actor, enc, target_rule) ==
    IF target_rule \in {"enemies", "allies"} THEN None
    ELSE IF target_rule = "self" THEN actor
    ELSE IF parsed.target_id = None THEN infer_spell_target(actor, enc, target_rule)
    ELSE parsed.target_id

\* lines 165-181 of _map_cast_spell
MapSpell(parsed, actor, enc, spell_id, target_rule) ==
    IF target_rule \in {"enemy", "ally"}
       /\ SpellTarget(parsed, actor, enc, target_rule) = None
    THEN clarify("Which target should the spell affect?", "Spell target is missing.")
    ELSE mapping_ok(CastSpellAction(actor, spell_id,
                                    SpellTarget(parsed, actor, enc, target_rule)))

\* ActionMapper._map_cast_spell
map_cast_spell(parsed, actor, enc, loader) ==
    IF actor = None THEN mapping_fail("Actor is required to cast a spell.")
    ELSE LET spell_id == IF parsed.spell_id = None
                            /\ Len(entities[actor].known_spells) = 1
                         THEN entities[actor].known_spells[1]
                         ELSE parsed.spell_id
         IN  IF spell_id = None
             THEN clarify("Which spell do you want to cast?", "Spell id is missing.")
             ELSE MapSpell(parsed, actor, enc, spell_id,
                           get_spell_target_rule(spell_id, loader))

\* _map_rest with the parsed rest type passed on as it is
map_rest_as_parsed(parsed, actor) ==
    IF actor = None THEN mapping_fail("Actor is required to rest.")
    ELSE IF parsed.rest_type \notin {"short", "long"}
         THEN [NoMapping EXCEPT !.raised = TRUE]
         ELSE mapping_ok(RestAction(actor, parsed.rest_type))

\* ActionMapper._map_rest (RestType(rest_type) raises ValueError on a string
\* that is no rest type)
map_rest(parsed, actor) ==
    IF actor = None THEN mapping_fail("Actor is required to rest.")
    ELSE LET rest_type == IF Falsy(parsed.rest_type) THEN "short" ELSE parsed.rest_type
         IN  IF rest_type \notin {"short", "long"}
             THEN [NoMapping EXCEPT !.raised = TRUE]
             ELSE mapping_ok(RestAction(actor, rest_type))

\* ActionMapper.map_intent
map_intent(parsed, actor, gs, enc, loader) ==
    IF parsed.intent = "unknown"
    THEN clarify("I didn't understand that.", "Unknown intent.")
    ELSE IF parsed.intent = "move" THEN map_move(parsed, actor, gs, loader)
    ELSE IF parsed.intent = "attack" THEN map_attack(parsed, actor, enc)
    ELSE IF parsed.intent = "cast_spell" THEN map_cast_spell(parsed, actor, enc, loader)
    ELSE IF parsed.intent = "rest" THEN map_rest(parsed, actor)
    ELSE IF parsed.intent = "end_turn"
    THEN IF actor = None THEN mapping_fail("Actor is required to end turn.")
         ELSE mapping_ok(EndTurnAction(actor))
    ELSE IF parsed.intent = "explore"
    THEN IF actor = None THEN mapping_fail("Actor is required to explore.")
         ELSE mapping_ok(ExploreAction(actor))
    ELSE mapping_fail("Unsupported intent")

\* the intents handed to the mapper, and the rest of a map_intent call:
\* (actor, gs, enc, loader)
ParsedIntents ==
    { ParsedIntent("attack", t, None, a, None, None) :
        t \in {None, "e1", "p2"}, a \in {None, "rusty_blade"} }
    \cup { ParsedIntent("cast_spell", t, sp, None, None, None) :
        t \in {None, "e2", "p2"},
        sp \in {None, "fire_bolt", "heal", "poison_cloud", "mass_heal", "second_wind",
                "moonbeam"} }
    \cup { ParsedIntent("move", None, None, None, None, r) : r \in {None, "shrine"} }
    \cup { ParsedIntent("rest", None, None, None, rt, None) : rt \in {None, "", "short", "long", "nap"} }
    \cup { ParsedIntent(i, None, None, None, None, None) :
        i \in {"unknown", "end_turn", "explore", "dance"} }

MapperArguments ==
    ({None, "p1", "p2", "e1", "e2"} \X {<< TRUE, TRUE, TRUE >>})
    \cup ({"p1", "e1"} \X {<< FALSE, TRUE, TRUE >>, << TRUE, FALSE, TRUE >>,
                           << TRUE, TRUE, FALSE >>})

(***************************************************************************)
(* Initial states                                                          *)
(***************************************************************************)
Bystander == Enemy(2, 2, << >>)

\* a party in the dungeon, no encounter
InitExploration(p1s, p2s, places, rested) ==
    /\ game_mode = "exploration"
    /\ \E place \in places : current_dungeon_id = place[1] /\ current_room_id = place[2]
    /\ rested_rooms \in rested
    /\ players = << "p1", "p2" >>
    /\ \E p1 \in p1s, p2 \in p2s :
         entities = [id \in EntityIds |->
                       IF id = "p1" THEN p1 ELSE IF id = "p2" THEN p2 ELSE Bystander]
    /\ participants = << >>
    /\ initiative_order = << >>
    /\ active_entity_id = ""
    /\ round = 1
    /\ last = NoCall

\* an encounter under way
InitEncounter(p1s, p2s, e1s, lists, actives) ==
    /\ game_mode = "encounter"
    /\ current_dungeon_id = "crypt"
    /\ current_room_id = "hall"
    /\ rested_rooms = << >>
    /\ players = << "p1", "p2" >>
    /\ \E p1 \in p1s, p2 \in p2s, e1 \in e1s :
         entities = [id \in EntityIds |->
                       IF id = "p1" THEN p1 ELSE IF id = "p2" THEN p2
                       ELSE IF id = "e1" THEN e1 ELSE Bystander]
    /\ participants \in lists
    /\ initiative_order = participants
    /\ active_entity_id \in actives
    /\ round = 1
    /\ last = NoCall

\* inputs of a single engine call
InitCall ==
    \/ InitExploration(
         { Player(hp, 8, s, 2, << >>) : hp \in {0, 1, 7, 8}, s \in {0, 1, 2} },
         { Player(hp, 3, 0, 0, << >>) : hp \in {0, 2} },
         { << "crypt", "hall" >>, << "crypt", "cellar" >>, << "crypt", "attic" >>,
           << "void", "cellar" >> },
         { << >>, << "cellar" >>, << "shrine", "cellar" >> })
    \/ InitEncounter(
         { Player(2, 3, 1, 2, << >>), Player(2, 3, 0, 2, << >>), Player(0, 3, 1, 2, << >>),
           Player(3, 3, 2, 2, << Effect(Stunned, "e1") >>),
           Player(1, 3, 1, 2, << Effect(Poisoned, "e1"), Effect(Stunned, "p1") >>) },
         { Player(2, 3, 0, 0, << >>) },
         { Enemy(2, 2, << >>), Enemy(0, 2, << >>),
           Enemy(1, 2, << Effect(Poisoned, "p1") >>) },
         { << "p1" >>, << "p1", "e1" >>, << "p1", "p2", "e1" >>, << "e1", "p1", "e2" >> },
         {"p1", "e1"})

\* an enemy that casts
Shaman(hp, max_hp, slots) ==
    [Enemy(hp, max_hp, << >>) EXCEPT !.spell_slots = [current |-> slots, max |-> slots],
                                    !.known_spells = << "mass_heal", "poison_cloud" >>]

\* encounters whose entities carry modifiers and damaging effects
InitCombat ==
    InitEncounter(
        { Player(2, 3, 1, 2, << >>),
          Player(3, 3, 1, 2, << Effect(Strengthened, "p2") >>),
          Player(1, 3, 1, 2, << Effect(Weakened, "e1"), Effect(Poisoned, "e1") >>),
          Player(2, 3, 0, 2, << Effect(Burned, "e1"), Effect(Poisoned, "e1"),
                                Effect(Fortified, "p1") >>) },
        { Player(2, 3, 0, 0, << >>), Player(0, 3, 0, 0, << >>) },
        { Enemy(2, 2, << >>),
          Enemy(1, 2, << Effect(Vulnerable, "p1") >>),
          Enemy(2, 2, << Effect(Fortified, "e1") >>),
          Enemy(1, 2, << Effect(Soothing, "e2"), Effect(Stunned, "p1") >>),
          Shaman(1, 2, 1) },
        { << "p1", "e1" >>, << "p1", "p2", "e1", "e2" >> },
        {"p1"})

\* the start of a run: a fresh encounter, or a wounded party in the dungeon
InitRun ==
    \/ InitExploration({ Player(1, 8, 0, 2, << >>) }, { Player(0, 3, 0, 0, << >>) },
                       { << "crypt", "cellar" >> }, { << >> })
    \/ InitEncounter({ Player(2, 2, 1, 1, << >>) }, { Player(0, 3, 0, 0, << >>) },
                     { Enemy(2, 2, << >>) }, { << "p1", "e1" >> }, {"p1"})

(***************************************************************************)
(* Single calls: one engine call on a drawn state, recorded in full        *)
(***************************************************************************)
\* validate_action spending the caster's slot when it accepts a CAST_SPELL
Validate_spending(action, enc) ==
    /\ last.op = "init"
    /\ last' = [NoCall EXCEPT !.op = "validate", !.action = action, !.enc = enc,
                              !.validation = validate_action(action, enc)]
    /\ entities' = IF validate_action(action, enc).is_valid
                      /\ action.action_type = "cast_spell"
                   THEN [entities EXCEPT ![action.actor_id].spell_slots.current = @ - 1]
                   ELSE entities
    /\ UNCHANGED << globalVars, turnVars >>

\* ValidationEngine.validate_action(action, global_state, encounter_state)
Validate(action, enc) ==
    /\ last.op = "init"
    /\ last' = [NoCall EXCEPT !.op = "validate", !.action = action, !.enc = enc,
                              !.validation = validate_action(action, enc)]
    /\ UNCHANGED << globalVars, entities, turnVars >>

\* ResolutionEngine.resolve_action(action, global_state, encounter_state)
Resolve(action, enc) ==
    /\ last.op = "init"
    /\ \E roll \in ActionD20(action), rolls \in RollChoices(ActionDice(action)) :
         \E r \in { resolve_action(action, enc, roll, rolls, TRUE) } :
             /\ entities' = r.entities
             /\ rested_rooms' = r.rested_rooms
             /\ active_entity_id' = r.active
             /\ round' = r.round
             /\ last' = [NoCall EXCEPT !.op = "resolve", !.action = action, !.enc = enc,
                                       !.result = r.result]
    /\ UNCHANGED << game_mode, current_dungeon_id, current_room_id, players,
                    participants, initiative_order >>

\* ResolutionEngine.resolve_start_of_turn(entity, encounter_state)
StartOfTurn(entity_id) ==
    /\ last.op = "init"
    /\ game_mode = "encounter"
    /\ InEncounter(entity_id)
    /\ entities' = [entities EXCEPT ![entity_id] = resolve_start_of_turn(@)]
    /\ last' = [NoCall EXCEPT !.op = "tick",
                              !.action = [NoAction EXCEPT !.actor_id = entity_id],
                              !.result.died = start_of_turn_died(entities[entity_id])]
    /\ UNCHANGED << globalVars, turnVars >>

CallNext ==
    \/ \E call \in CallInputs : Validate(call[1], call[2])
    \/ \E call \in CallInputs : Resolve(call[1], call[2])
    \/ \E entity_id \in Range(participants) : StartOfTurn(entity_id)

SpecCall == InitCall /\ [][CallNext]_vars

\* single calls on the encounters of InitCombat
SpecCombat == InitCombat /\ [][CallNext]_vars

\* resolve_action(action, global_state, encounter_state, logger) and, on a copy
\* of the same state and with the same dice, resolve_action(action,
\* global_state, encounter_state): the first call is applied, what the second
\* leaves is kept in last.unlogged
ResolveTwice(action, enc) ==
    /\ last.op = "init"
    /\ \E roll \in ActionD20(action), rolls \in RollChoices(ActionDice(action)) :
         \E r \in { resolve_action(action, enc, roll, rolls, TRUE) } :
             /\ entities' = r.entities
             /\ rested_rooms' = r.rested_rooms
             /\ active_entity_id' = r.active
             /\ round' = r.round
             /\ last' = [NoCall EXCEPT
                            !.op = "resolve", !.action = action, !.enc = enc,
                            !.result = r.result,
                            !.unlogged = Unlogged(resolve_action(action, enc, roll,
                                                                 rolls, FALSE))]
    /\ UNCHANGED << game_mode, current_dungeon_id, current_room_id, players,
                    participants, initiative_order >>

LoggerNext == \E call \in CallInputs : ResolveTwice(call[1], call[2])

\* single calls, with and without a logger, on the states of InitCall and
\* InitCombat
SpecLogger == (InitCall \/ InitCombat) /\ [][LoggerNext]_vars

\* an enemy that knows one spell
Adept(hp, max_hp) ==
    [Enemy(hp, max_hp, << >>) EXCEPT !.spell_slots = [current |-> 1, max |-> 1],
                                    !.known_spells = << "fire_bolt" >>,
                                    !.known_attacks = << "venom_bite" >>]

\* the states the mapper is called in: the party in a room, or an encounter
\* with none, one or several living entities on each side
InitMap ==
    \/ InitExploration(
         { Player(7, 8, 1, 2, << >>) }, { Player(2, 3, 0, 0, << >>) },
         { << "crypt", "hall" >>, << "crypt", "cellar" >>, << "crypt", "attic" >>,
           << "crypt", "vault" >>, << "void", "cellar" >> },
         { << >> })
    \/ InitEncounter(
         { Player(2, 3, 1, 2, << >>), Player(0, 3, 1, 2, << >>) },
         { Player(2, 3, 0, 0, << >>), Player(0, 3, 0, 0, << >>) },
         { Enemy(2, 2, << >>), Enemy(0, 2, << >>), Shaman(1, 2, 1), Adept(2, 2) },
         { << "p1", "e1" >>, << "p1", "p2", "e1", "e2" >>, << "e1", "p1", "p2" >> },
         {"p1"})

\* ActionMapper.map_intent(parsed, actor, global_state, encounter_state)
Map(parsed, actor, gs, enc, loader) ==
    /\ last.op = "init"
    /\ last' = [NoCall EXCEPT !.op = "map", !.parsed = parsed, !.enc = enc,
                              !.mapper = [actor |-> actor, global_state |-> gs,
                                          data_loader |-> loader],
                              !.mapping = map_intent(parsed, actor, gs, enc, loader)]
    /\ UNCHANGED << globalVars, entities, turnVars >>

MapNext ==
    \E parsed \in ParsedIntents, args \in MapperArguments :
        Map(parsed, args[1], args[2][1], args[2][2], args[2][3])

\* single calls of the mapper
SpecMap == InitMap /\ [][MapNext]_vars

(***************************************************************************)
(* to_dict / from_dict of models/entities.py, models/states.py and         *)
(* models/actions.py.  An object is a record of the dataclass's fields, an *)
(* enum member a record [enum, name]; a dict is a record of its keys.      *)
(***************************************************************************)
\* the members of EntityType, GameMode and ActionType, with their values
EnumTags ==
    [ EntityType |-> [PLAYER |-> "player", ENEMY |-> "enemy"],
      GameMode   |-> [EXPLORATION |-> "exploration", ENCOUNTER |-> "encounter"],
      ActionType |-> [MOVE |-> "move", ATTACK |-> "attack", CAST_SPELL |-> "cast_spell",
                      REST |-> "rest", END_TURN |-> "end_turn", EXPLORE |-> "explore"] ]

Member(enum, name) == [enum |-> enum, name |-> name]

\* member.value
EnumValue(member) == EnumTags[member.enum][member.name]

\* EntityType(tag) / GameMode(tag) / ActionType(tag): the member with that
\* value (name "ValueError": the constructor raises)
EnumOf(enum, tag) ==
    IF \E name \in DOMAIN EnumTags[enum] : EnumTags[enum][name] = tag
    THEN Member(enum, CHOOSE name \in DOMAIN EnumTags[enum] : EnumTags[enum][name] = tag)
    ELSE Member(enum, "ValueError")

\* dict.get(key, default)
Get(d, key, default) == IF key \in DOMAIN d THEN d[key] ELSE default

\* [f(x) for x in s]
MapSeq(s, f(_)) == [i \in 1..Len(s) |-> f(s[i])]

\* the status-effect entries of Entity.to_dict / Entity.from_dict
StatusEffect_to_dict(e) ==
    [type |-> e.effect_type, duration |-> e.duration, magnitude |-> e.magnitude,
     source_id |-> e.source_id]

\* the StatusEffect of from_dict built with the dataclass default magnitude
StatusEffect_from_dict_default(d) ==
    [effect_type |-> d.type, duration |-> d.duration, magnitude |-> 1,
     source_id |-> Get(d, "source_id", None)]

StatusEffect_from_dict(d) ==
    [effect_type |-> d.type, duration |-> d.duration,
     magnitude |-> Get(d, "magnitude", 1), source_id |-> Get(d, "source_id", None)]

\* Entity.to_dict
Entity_to_dict(e) ==
    [entity_id |-> e.entity_id, name |-> e.name, type |-> EnumValue(e.entity_type),
     race |-> e.race, class |-> e.char_class, hp |-> e.hp, max_hp |-> e.max_hp,
     ac |-> e.ac, attack_modifier |-> e.attack_modifier,
     known_attacks |-> e.known_attacks,
     spell_slots |-> [current |-> e.spell_slots.current, max |-> e.spell_slots.max],
     known_spells |-> e.known_spells,
     status_effects |-> MapSeq(e.status_effects, StatusEffect_to_dict)]

\* Entity.from_dict
Entity_from_dict(data) ==
    [entity_id |-> data.entity_id, name |-> data.name,
     entity_type |-> EnumOf("EntityType", data.type),
     race |-> data.race, char_class |-> data.class, hp |-> data.hp,
     max_hp |-> data.max_hp, ac |-> data.ac, attack_modifier |-> data.attack_modifier,
     known_attacks |-> Get(data, "known_attacks", << >>),
     spell_slots |-> [current |-> data.spell_slots.current, max |-> data.spell_slots.max],
     known_spells |-> Get(data, "known_spells", << >>),
     status_effects |-> MapSeq(Get(data, "status_effects", << >>), StatusEffect_from_dict)]

\* GlobalGameState.to_dict
GlobalGameState_to_dict(g) ==
    [game_mode |-> EnumValue(g.game_mode),
     current_dungeon_id |-> g.current_dungeon_id,
     current_room_id |-> g.current_room_id,
     party |-> [players |-> MapSeq(g.players, Entity_to_dict)],
     cleared_encounters |-> g.cleared_encounters,
     dungeon_state |-> [visited_rooms |-> g.dungeon_state.visited_rooms,
                        rested_rooms |-> g.dungeon_state.rested_rooms],
     progression |-> [total_rewards |-> g.progression.total_rewards,
                      encounters_cleared |-> g.progression.encounters_cleared]]

\* GlobalGameState.from_dict
GlobalGameState_from_dict(data) ==
    [game_mode |-> EnumOf("GameMode", data.game_mode),
     current_dungeon_id |-> data.current_dungeon_id,
     current_room_id |-> data.current_room_id,
     players |-> MapSeq(data.party.players, Entity_from_dict),
     cleared_encounters |-> Get(data, "cleared_encounters", << >>),
     dungeon_state |-> [visited_rooms |-> data.dungeon_state.visited_rooms,
                        rested_rooms |-> data.dungeon_state.rested_rooms],
     progression |-> [total_rewards |-> data.progression.total_rewards,
                      encounters_cleared |-> data.progression.encounters_cleared]]

\* EncounterState.to_dict
EncounterState_to_dict(e) ==
    [encounter_id |-> e.encounter_id, room_id |-> e.room_id, round |-> e.round,
     entities |-> MapSeq(e.entities, Entity_to_dict),
     initiative_order |-> e.initiative_order,
     active_entity_id |-> e.active_entity_id, combat_log |-> e.combat_log]

\* EncounterState.from_dict
EncounterState_from_dict(data) ==
    [encounter_id |-> data.encounter_id, room_id |-> data.room_id, round |-> data.round,
     entities |-> MapSeq(data.entities, Entity_from_dict),
     initiative_order |-> data.initiative_order,
     active_entity_id |-> data.active_entity_id,
     combat_log |-> Get(data, "combat_log", << >>)]

\* Action.to_dict
Action_to_dict(a) ==
    [actor_id |-> a.actor_id, action_type |-> EnumValue(a.action_type),
     target_id |-> a.target_id, parameters |-> a.parameters]

\* Action.from_dict (the classmethod of the base class)
Action_from_dict(data) ==
    [actor_id |-> data.actor_id, action_type |-> EnumOf("ActionType", data.action_type),
     target_id |-> Get(data, "target_id", None),
     parameters |-> Get(data, "parameters", NoParams)]

\* the objects behind the state: the Entity of an id, the GlobalGameState and
\* the EncounterState (with the fields the engines do not read), an Action
Names == [p1 |-> "Aria", p2 |-> "Borin", e1 |-> "Goblin", e2 |-> "Rat"]

EntityObject(id) ==
    [entity_id |-> id, name |-> Names[id],
     entity_type |-> EnumOf("EntityType", entities[id].entity_type),
     race |-> IF entities[id].entity_type = "player" THEN "human" ELSE "goblin",
     char_class |-> IF entities[id].entity_type = "player" THEN "wizard" ELSE "monster",
     hp |-> entities[id].hp, max_hp |-> entities[id].max_hp, ac |-> entities[id].ac,
     attack_modifier |-> entities[id].attack_modifier,
     known_attacks |-> entities[id].known_attacks,
     spell_slots |-> entities[id].spell_slots,
     known_spells |-> entities[id].known_spells,
     status_effects |-> entities[id].status_effects]

GlobalObject(history) ==
    [game_mode |-> EnumOf("GameMode", game_mode),
     current_dungeon_id |-> current_dungeon_id, current_room_id |-> current_room_id,
     players |-> MapSeq(players, EntityObject),
     cleared_encounters |-> history.cleared_encounters,
     dungeon_state |-> [visited_rooms |-> history.visited_rooms,
                        rested_rooms |-> rested_rooms],
     progression |-> history.progression]

EncounterObject(combat_log) ==
    [encounter_id |-> "ambush", room_id |-> current_room_id, round |-> round,
     entities |-> MapSeq(participants, EntityObject),
     initiative_order |-> initiative_order, active_entity_id |-> active_entity_id,
     combat_log |-> combat_log]

ActionObject(action) ==
    [actor_id |-> action.actor_id,
     action_type |-> EnumOf("ActionType", action.action_type),
     target_id |-> action.target_id, parameters |-> action.parameters]

\* what the session has been through: visited rooms, cleared encounters, rewards
Histories ==
    { [visited_rooms |-> << >>, cleared_encounters |-> << >>,
       progression |-> [total_rewards |-> 0, encounters_cleared |-> 0]],
      [visited_rooms |-> << "hall", "cellar" >>, cleared_encounters |-> << "ambush" >>,
       progression |-> [total_rewards |-> 5, encounters_cleared |-> 1]],
      [visited_rooms |-> << "cellar", "hall" >>,
       cleared_encounters |-> << "ambush", "ratnest" >>,
       progression |-> [total_rewards |-> 7, encounters_cleared |-> 2]] }

CombatLogs == { << >>, << "Aria hits Goblin", "Goblin misses Aria" >> }

\* from_dict(to_dict(x)) on an Entity, the GlobalGameState, the EncounterState
\* and an Action
RoundTripEntity(id) ==
    /\ last.op = "init"
    /\ last' = [NoCall EXCEPT
                  !.op = "round_trip",
                  !.dict = RoundTrip("Entity", EntityObject(id),
                                     Entity_to_dict(EntityObject(id)),
                                     Entity_from_dict(Entity_to_dict(EntityObject(id))))]
    /\ UNCHANGED << globalVars, entities, turnVars >>

RoundTripGlobal(history) ==
    /\ last.op = "init"
    /\ last' = [NoCall EXCEPT
                  !.op = "round_trip",
                  !.dict = RoundTrip("GlobalGameState", GlobalObject(history),
                                     GlobalGameState_to_dict(GlobalObject(history)),
                                     GlobalGameState_from_dict(
                                         GlobalGameState_to_dict(GlobalObject(history))))]
    /\ UNCHANGED << globalVars, entities, turnVars >>

RoundTripEncounter(combat_log) ==
    /\ last.op = "init"
    /\ game_mode = "encounter"
    /\ last' = [NoCall EXCEPT
                  !.op = "round_trip",
                  !.dict = RoundTrip("EncounterState", EncounterObject(combat_log),
                                     EncounterState_to_dict(EncounterObject(combat_log)),
                                     EncounterState_from_dict(
                                         EncounterState_to_dict(
                                             EncounterObject(combat_log))))]
    /\ UNCHANGED << globalVars, entities, turnVars >>

RoundTripAction(action) ==
    /\ last.op = "init"
    /\ last' = [NoCall EXCEPT
                  !.op = "round_trip",
                  !.dict = RoundTrip("Action", ActionObject(action),
                                     Action_to_dict(ActionObject(action)),
                                     Action_from_dict(Action_to_dict(ActionObject(action))))]
    /\ UNCHANGED << globalVars, entities, turnVars >>

\* the actions serialized: those of the current mode
DictActions ==
    IF game_mode = "exploration" THEN ExplorationActions ELSE ForeignActions

DictNext ==
    \/ \E id \in EntityIds : RoundTripEntity(id)
    \/ \E history \in Histories : RoundTripGlobal(history)
    \/ \E combat_log \in CombatLogs : RoundTripEncounter(combat_log)
    \/ \E action \in DictActions : RoundTripAction(action)

InitDict == InitCall \/ InitCombat

\* single round trips on the states of InitCall and InitCombat
SpecDict == InitDict /\ [][DictNext]_vars

(***************************************************************************)
(* Calls of roll_dice on written-out notations.  A notation is written     *)
(* from the numbers it stands for (n dice of m sides, sign and k; a        *)
(* negative number: the part is left out), so that what the parser reads   *)
(* back can be compared with them.                                         *)
(***************************************************************************)
\* str(n) for 0 <= n <= 99
Decimal(n) ==
    IF n < 10 THEN << Digits[n + 1] >>
    ELSE << Digits[(n \div 10) + 1], Digits[(n % 10) + 1] >>

Numeral(n, padded) ==
    IF n < 0 THEN << >>
    ELSE IF padded THEN << "0" >> \o Decimal(n)
    ELSE Decimal(n)

DiceModifiers ==
    { [sign |-> "", k |-> 0 - 1], [sign |-> "+", k |-> 0 - 1] }
    \cup { [sign |-> sg, k |-> k] : sg \in {"+", "-"}, k \in {0, 1, 2, 10} }

DiceInputs ==
    { [n |-> n, m |-> m, sep |-> sep, modifier |-> md, padded |-> pd, blanks |-> bl] :
        n \in {0 - 1, 0, 1, 2, 3}, m \in {0 - 1, 0, 1, 2, 3}, sep \in {"d", "D"},
        md \in DiceModifiers, pd \in BOOLEAN, bl \in {"none", "ends", "inside"} }

Notation(i) ==
    (IF i.blanks = "ends" THEN << " " >> ELSE << >>)
    \o Numeral(i.n, i.padded)
    \o (IF i.blanks = "inside" THEN << " " >> ELSE << >>)
    \o << i.sep >>
    \o Numeral(i.m, i.padded)
    \o (IF i.modifier.sign = "" THEN << >> ELSE << i.modifier.sign >>)
    \o Numeral(i.modifier.k, FALSE)
    \o (IF i.blanks = "ends" THEN << " ", " " >> ELSE << >>)

\* roll_dice(dice_str), the rng drawing `rolls`
RollDice(input, rolls) ==
    /\ last.op = "init"
    /\ last' = [NoCall EXCEPT !.op = "roll",
                              !.roll = [input |-> input, dice_str |-> Notation(input),
                                        result |-> roll_dice(Notation(input), rolls)]]
    /\ UNCHANGED << globalVars, entities, turnVars >>

DiceNext ==
    \E input \in DiceInputs : \E rolls \in RollChoices(Notation(input)) :
        RollDice(input, rolls)

InitDice ==
    InitExploration({ Player(7, 8, 1, 2, << >>) }, { Player(2, 3, 0, 0, << >>) },
                    { << "crypt", "hall" >> }, { << >> })

\* single calls of roll_dice
SpecDice == InitDice /\ [][DiceNext]_vars

(***************************************************************************)
(* agent/parser.py.  A score is a whole number (keyword hits of 1.0 and    *)
(* bonuses of 2.0 and 3.0 added up); a confidence is counted in thirtieths *)
(* (0.6 is 18, 0.5 + top_score / 6 is 15 + 5 * top_score, 1.0 is 30).       *)
(***************************************************************************)
\* the keys of IntentParser._INTENT_KEYWORDS, in the order of the dict
IntentOrder == << "move", "attack", "cast_spell", "rest", "end_turn", "explore" >>

\* scores.items()
ScoreItems(scores) ==
    [i \in 1..Len(scores) |-> [intent |-> IntentOrder[i], score |-> scores[i]]]

\* sorted(items, key=score) without reverse=True: lowest score first
SortByScore_ascending(items) ==
    [k \in 1..Len(items) |->
        items[CHOOSE i \in 1..Len(items) :
                k = 1 + Cardinality({ j \in 1..Len(items) : items[j].score < items[i].score })
                      + Cardinality({ j \in 1..(i - 1) : items[j].score = items[i].score })]]

\* sorted(items, key=score, reverse=True): highest score first, items of equal
\* score in their original order (the sort is stable)
SortByScore(items) ==
    [k \in 1..Len(items) |->
        items[CHOOSE i \in 1..Len(items) :
                k = 1 + Cardinality({ j \in 1..Len(items) : items[j].score > items[i].score })
                      + Cardinality({ j \in 1..(i - 1) : items[j].score = items[i].score })]]

\* the tuple returned once the items are sorted
PickSorted(sorted_scores) ==
    LET top == sorted_scores[1]
        second_score == IF Len(sorted_scores) > 1 THEN sorted_scores[2].score ELSE 0
    IN  IF top.score <= 0 THEN Picked("unknown", 0, FALSE)
        ELSE IF top.score = second_score THEN Picked(top.intent, 18, TRUE)
        ELSE Picked(top.intent, Min(30, 15 + 5 * top.score), FALSE)

\* IntentParser._pick_intent
pick_intent(scores) ==
    IF scores = << >> THEN Picked("unknown", 0, FALSE)
    ELSE PickSorted(SortByScore(ScoreItems(scores)))

\* str.lower() on the letters of the texts
Lower(c) == IF c = "A" THEN "a" ELSE IF c = "B" THEN "b" ELSE c

\* re.sub(r"[^a-z0-9\s]", " ", text) on one character
Unpunctuated(c) == IF c \in {"a", "b", " "} \/ IsDigit(c) THEN c ELSE " "

\* re.sub(r"\s+", " ", text): a run of blanks becomes one blank
RECURSIVE Collapse(_)
Collapse(s) ==
    IF Len(s) <= 1 THEN s
    ELSE IF s[1] = " " /\ s[2] = " " THEN Collapse(Tail(s))
    ELSE << s[1] >> \o Collapse(Tail(s))

\* IntentParser._normalize_text
normalize_text(text) ==
    LET stripped == Strip([i \in 1..Len(text) |-> Lower(text[i])])
    IN  Collapse([i \in 1..Len(stripped) |-> Unpunctuated(stripped[i])])

\* `name in text` on strings
Contains(name, text) ==
    \E i \in 0..(Len(text) - Len(name)) : SubSeq(text, i + 1, i + Len(name)) = name

\* the (item_id, name, normalized_name) tuples built from name_map.items()
NormalizedNames(name_map) ==
    [i \in 1..Len(name_map) |->
        [item_id |-> name_map[i].item_id, name |-> name_map[i].name,
         normalized_name |-> normalize_text(name_map[i].name)]]

\* the tuples left in the order of the dict
SortByLength_unsorted(items) == items

\* normalized_names.sort(key=len of the normalized name, reverse=True): longest
\* first, names of equal length in their original order (the sort is stable)
SortByLength(items) ==
    [k \in 1..Len(items) |->
        items[CHOOSE i \in 1..Len(items) :
                k = 1 + Cardinality({ j \in 1..Len(items) :
                                        Len(items[j].normalized_name)
                                          > Len(items[i].normalized_name) })
                      + Cardinality({ j \in 1..(i - 1) :
                                        Len(items[j].normalized_name)
                                          = Len(items[i].normalized_name) })]]

\* the loop over the sorted tuples: the first whose normalized name is not
\* empty and is in the input
FirstMatch(sorted_names, normalized) ==
    LET hits == SelectSeq(sorted_names,
                          LAMBDA x : x.normalized_name # << >>
                                     /\ Contains(x.normalized_name, normalized))
    IN  IF hits = << >> THEN NoMatch ELSE Matched(hits[1].item_id, hits[1].name)

\* IntentParser._find_name_match
find_name_match(normalized, name_map) ==
    IF name_map = << >> THEN NoMatch
    ELSE FirstMatch(SortByLength(NormalizedNames(name_map)), normalized)

\* the texts typed by the player and the names of the content
TextInputs == UNION { [1..n -> {"a", "b", " "}] : n \in 0..3 }
NameInputs == UNION { [1..n -> {"a", "b", "A", "!"}] : n \in 0..2 }

\* name maps of up to two items
NameMaps ==
    { << >> }
    \cup { << [item_id |-> "i1", name |-> n] >> : n \in NameInputs }
    \cup { << [item_id |-> "i1", name |-> n], [item_id |-> "i2", name |-> m] >> :
             n \in NameInputs, m \in NameInputs }

\* the scores handed to _pick_intent: six, one per intent
ScoreInputs == [1..Len(IntentOrder) -> {0, 1, 3, 4}]

\* _pick_intent(scores)
PickIntent(scores) ==
    /\ last.op = "init"
    /\ last' = [NoCall EXCEPT !.op = "pick",
                              !.pick = [scores |-> scores, result |-> pick_intent(scores)]]
    /\ UNCHANGED << globalVars, entities, turnVars >>

\* _find_name_match(normalized, name_map), normalized = _normalize_text(text)
FindNameMatch(text, name_map) ==
    /\ last.op = "init"
    /\ last' = [NoCall EXCEPT
                  !.op = "match",
                  !.match = [normalized |-> normalize_text(text), name_map |-> name_map,
                             result |-> find_name_match(normalize_text(text), name_map)]]
    /\ UNCHANGED << globalVars, entities, turnVars >>

ParserNext ==
    \/ \E scores \in ScoreInputs : PickIntent(scores)
    \/ \E text \in TextInputs, name_map \in NameMaps : FindNameMatch(text, name_map)

InitParser ==
    InitExploration({ Player(7, 8, 1, 2, << >>) }, { Player(2, 3, 0, 0, << >>) },
                    { << "crypt", "hall" >> }, { << >> })

\* single calls of the parser's functions
SpecParser == InitParser /\ [][ParserNext]_vars

(***************************************************************************)
(* Calls of Entity.take_damage and Entity.heal made one after another on   *)
(* the entities.  The amounts are those a roll can total: roll_dice adds a *)
(* signed modifier, so a total can be negative.  A negative amount is      *)
(* applied to an entity whose hp is within 0..max_hp only.                 *)
(***************************************************************************)
Amounts == {0 - 1, 0, 1, 2, 5}

HpInRange(e) == e.hp >= 0 /\ e.hp <= e.max_hp

TakeDamage(entity_id, amount) ==
    /\ amount >= 0 \/ HpInRange(entities[entity_id])
    /\ entities' = [entities EXCEPT ![entity_id] = take_damage(@, amount)]
    /\ last' = [NoCall EXCEPT
                  !.op = "take_damage",
                  !.call = EntityCall(entity_id, amount, entities[entity_id].hp,
                                      take_damage_actual(entities[entity_id], amount))]
    /\ UNCHANGED << globalVars, turnVars >>

Heal(entity_id, amount) ==
    /\ amount >= 0 \/ HpInRange(entities[entity_id])
    /\ entities' = [entities EXCEPT ![entity_id] = heal(@, amount)]
    /\ last' = [NoCall EXCEPT
                  !.op = "heal",
                  !.call = EntityCall(entity_id, amount, entities[entity_id].hp,
                                      heal_actual(entities[entity_id], amount))]
    /\ UNCHANGED << globalVars, turnVars >>

EntityNext ==
    \/ \E entity_id \in {"p1", "e1"}, amount \in Amounts : TakeDamage(entity_id, amount)
    \/ \E entity_id \in {"p1", "e1"}, amount \in Amounts : Heal(entity_id, amount)

InitEntity ==
    InitExploration({ Player(2, 3, 1, 2, << >>) }, { Player(2, 3, 0, 0, << >>) },
                    { << "crypt", "hall" >> }, { << >> })

\* take_damage and heal in sequence
SpecEntity == InitEntity /\ [][EntityNext]_vars

(***************************************************************************)
(* Runs: calls made one after another on the same state (the session       *)
(* driver of spec section 5); `last` keeps the outcome of the latest call  *)
(***************************************************************************)
\* rounds played in a run
MaxRound == 3

\* a run is followed until an entity's hp has left 0..max_hp
WithinHp == \A id \in EntityIds : entities[id].hp >= 0 /\ entities[id].hp <= entities[id].max_hp

\* the driver passes the EncounterState while an encounter is under way
EncounterGiven == game_mode = "encounter"

Outcome(op, action, validation, result) ==
    [NoCall EXCEPT !.op = op,
                   !.action = [NoAction EXCEPT !.action_type = action.action_type],
                   !.enc = EncounterGiven,
                   !.validation = validation,
                   !.result = [Result(result.success, "") EXCEPT
                                 !.raised = result.raised, !.hit = result.hit,
                                 !.targets = result.targets,
                                 !.status_effect = result.status_effect]]

\* resolve_action called on the action, validated or not
ResolveStep(action) ==
    /\ WithinHp
    /\ \E roll \in ActionD20(action), rolls \in RollChoices(ActionDice(action)) :
         \E r \in { resolve_action(action, EncounterGiven, roll, rolls, TRUE) } :
             /\ r.round <= MaxRound
             /\ entities' = r.entities
             /\ rested_rooms' = r.rested_rooms
             /\ active_entity_id' = r.active
             /\ round' = r.round
             /\ last' = Outcome("resolve", action, ok, r.result)
    /\ UNCHANGED << game_mode, current_dungeon_id, current_room_id, players,
                    participants, initiative_order >>

\* validate_action, then resolve_action if the action was accepted
DriveStep(action) ==
    /\ WithinHp
    /\ \E v \in { validate_action(action, EncounterGiven) } :
         IF v.is_valid
         THEN \E roll \in ActionD20(action), rolls \in RollChoices(ActionDice(action)) :
                \E r \in { resolve_action(action, EncounterGiven, roll, rolls, TRUE) } :
                    /\ r.round <= MaxRound
                    /\ entities' = r.entities
                    /\ rested_rooms' = r.rested_rooms
                    /\ active_entity_id' = r.active
                    /\ round' = r.round
                    /\ last' = Outcome("resolve", action, v, r.result)
         ELSE /\ last' = Outcome("rejected", action, v, Result(FALSE, ""))
              /\ UNCHANGED << entities, rested_rooms, active_entity_id, round >>
    /\ UNCHANGED << game_mode, current_dungeon_id, current_room_id, players,
                    participants, initiative_order >>

\* resolve_start_of_turn called by the turn loop on a participant
TickStep(entity_id) ==
    /\ WithinHp
    /\ game_mode = "encounter"
    /\ InEncounter(entity_id)
    /\ entities' = [entities EXCEPT ![entity_id] = resolve_start_of_turn(@)]
    /\ last' = [NoCall EXCEPT !.op = "tick", !.enc = TRUE]
    /\ UNCHANGED << globalVars, turnVars >>

\* the exploration engine carrying out an accepted MOVE: the party enters the room
MoveStep(action) ==
    /\ game_mode = "exploration"
    /\ action.action_type = "move"
    /\ validate_action(action, FALSE).is_valid
    /\ current_room_id' = action.target_id
    /\ last' = [NoCall EXCEPT !.op = "move"]
    /\ UNCHANGED << game_mode, current_dungeon_id, players, rested_rooms, entities, turnVars >>

Next ==
    \/ \E action \in RunActions : ResolveStep(action)
    \/ \E entity_id \in Range(participants) : TickStep(entity_id)
    \/ \E action \in RunActions : MoveStep(action)

Spec == InitRun /\ [][Next]_vars

DrivenNext ==
    \/ \E action \in RunActions \cup TurnActions : DriveStep(action)
    \/ \E entity_id \in Range(participants) : TickStep(entity_id)
    \/ \E action \in RunActions : MoveStep(action)

SpecDriven == InitRun /\ [][DrivenNext]_vars

\* turns ended one after another from a drawn encounter
TurnNext == \E action \in TurnActions : ResolveStep(action)

InitTurn == InitCall /\ game_mode = "encounter"

SpecTurn == InitTurn /\ [][TurnNext]_vars

\* an encounter of three living participants, driven by validate-then-resolve
\* steps only (no start-of-turn calls): what the participants attempt
RotationActions ==
    { AttackAction(a, t, "staff_strike") : a \in {"p1", "p2"}, t \in {"p1", "e1"} }
    \cup { AttackAction("e1", t, "rusty_blade") : t \in {"p1", "p2"} }
    \cup { CastSpellAction("p1", "sleep", "e1") }
    \cup { EndTurnAction(a) : a \in {"p1", "p2", "e1"} }

InitRotation ==
    InitEncounter({ Player(2, 3, 1, 2, << >>) }, { Player(2, 3, 0, 0, << >>) },
                  { Enemy(2, 2, << >>) }, { << "p1", "p2", "e1" >> }, {"p1"})

\* the active entity issues END_TURN: it is validated, and resolved if accepted
EndTurn == DriveStep(EndTurnAction(active_entity_id))

\* any other attempt: an attack, a spell, an END_TURN out of turn
Attempt(action) ==
    /\ action # EndTurnAction(active_entity_id)
    /\ DriveStep(action)

\* EncounterState.all_enemies_dead() or all_players_dead(): the encounter is over
EncounterOver == get_living_enemies = << >> \/ get_living_players = << >>

RotationNext ==
    \/ EndTurn
    \/ \E action \in RotationActions : Attempt(action)

\* the active entity ends its turn whenever validation would accept that
SpecRotation == InitRotation /\ [][RotationNext]_vars /\ WF_vars(EndTurn)

(***************************************************************************)
(* Properties                                                              *)
(***************************************************************************)
Ids == DOMAIN entities

\* C1: after any sequence of resolutions and ticks every entity has
\* 0 <= hp <= max_hp, content with negative dice modifiers included.
C1_HpWithinBounds ==
    \A id \in Ids : entities[id].hp >= 0 /\ entities[id].hp <= entities[id].max_hp

Stunnedness(e) ==
    \E i \in 1..Len(e.status_effects) : e.status_effects[i].effect_type = "stunned"

\* the actors for which validation accepts some encounter action in the state
AcceptedActors ==
    { a.actor_id : a \in { x \in EncounterActions \cup TurnActions :
                             validate_action(x, TRUE).is_valid } }

\* C2: an ATTACK, CAST_SPELL or END_TURN that validate_action accepts has an
\* actor that is in the encounter, has hp > 0, is the active entity and is not
\* stunned; so at most one entity can have an action accepted in a state.
C2_AcceptedActorOwnsTurn ==
    /\ (last.op = "validate" /\ last.validation.is_valid
          /\ last.action.action_type \in {"attack", "cast_spell", "end_turn"})
       => /\ last.action.actor_id \in Range(participants)
          /\ entities[last.action.actor_id].hp > 0
          /\ last.action.actor_id = active_entity_id
          /\ ~Stunnedness(entities[last.action.actor_id])
    /\ game_mode = "encounter" => Cardinality(AcceptedActors) <= 1

C2_Witness ==
    /\ last.op = "validate" /\ last.validation.is_valid
    /\ last.action.action_type = "attack"
    /\ Len(participants) = 3

\* C5: validate_action accepts only MOVE, EXPLORE and REST in EXPLORATION mode,
\* only ATTACK, CAST_SPELL and END_TURN in ENCOUNTER mode, and nothing in
\* ENCOUNTER mode without an encounter state.
C5_AcceptedTypeFitsMode ==
    (last.op = "validate" /\ last.validation.is_valid)
    => \/ game_mode = "exploration"
          /\ last.action.action_type \in {"move", "explore", "rest"}
       \/ game_mode = "encounter" /\ last.enc
          /\ last.action.action_type \in {"attack", "cast_spell", "end_turn"}

C5_Witness ==
    /\ last.op = "validate" /\ last.validation.is_valid
    /\ game_mode = "exploration" /\ last.action.action_type = "rest"

NoDuplicates(s) == \A i, j \in 1..Len(s) : i # j => s[i] # s[j]

RestTypes == {"short", "long"}

\* C3: in validate-then-resolve runs, once a REST has been resolved in a room
\* every later REST there is rejected by validation, so a room is rested in at
\* most once and rested_rooms never holds a room id twice.
C3_OneRestPerRoom ==
    /\ [](NoDuplicates(rested_rooms))
    /\ []((game_mode = "exploration" /\ current_room_id \in Range(rested_rooms))
            => \A k \in RestTypes :
                 ~validate_action(RestAction("p1", k), FALSE).is_valid)
    /\ [][ /\ Range(rested_rooms) \subseteq Range(rested_rooms')
           /\ (last'.action.action_type = "rest" /\ last'.op = "resolve")
              => /\ current_room_id \notin Range(rested_rooms)
                 /\ current_room_id \in Range(rested_rooms')
           /\ (last'.action.action_type = "rest" /\ current_room_id \in Range(rested_rooms))
              => last'.op = "rejected" /\ ~last'.validation.is_valid ]_vars

C3_Witness ==
    /\ last.op = "rejected" /\ last.action.action_type = "rest"
    /\ Len(rested_rooms) > 1
    /\ current_room_id = rested_rooms[1]

\* advance_turn called n times in a row
RECURSIVE AdvanceN(_, _, _, _)
AdvanceN(order, active, rnd, n) ==
    IF n = 0 THEN [active |-> active, round |-> rnd]
    ELSE LET t == advance_turn(order, active, rnd)
         IN  AdvanceN(order, t.active, t.round, n - 1)

ActiveInOrder == \E i \in 1..Len(initiative_order) : initiative_order[i] = active_entity_id

\* C4: with N distinct ids in the initiative order and the active entity among
\* them, each advance_turn moves to the next id (wrapping) and adds 1 to round
\* exactly when the new active id is initiative_order[0]; N calls in a row give
\* the same active entity and round + 1; round never decreases.
C4_TurnRotation ==
    /\ []((NoDuplicates(initiative_order) /\ ActiveInOrder)
            => AdvanceN(initiative_order, active_entity_id, round, Len(initiative_order))
                 = [active |-> active_entity_id, round |-> round + 1])
    /\ [][ /\ round' >= round
           /\ (last'.op = "resolve" /\ last'.action.action_type = "end_turn"
                 /\ NoDuplicates(initiative_order) /\ ActiveInOrder)
              => \E i \in 1..Len(initiative_order) :
                   /\ initiative_order[i] = active_entity_id
                   /\ active_entity_id' = initiative_order[(i % Len(initiative_order)) + 1]
                   /\ round' = round + (IF active_entity_id' = initiative_order[1]
                                        THEN 1 ELSE 0) ]_vars

C4_Witness ==
    /\ last.op = "resolve" /\ last.action.action_type = "end_turn"
    /\ Len(initiative_order) = 3
    /\ round = 3
    /\ active_entity_id = initiative_order[2]

EffectsOfType(e, effect_type) ==
    { i \in 1..Len(e.status_effects) : e.status_effects[i].effect_type = effect_type }

\* C6: from an encounter without doubled effects, after any ATTACK and
\* CAST_SPELL resolutions and start-of-turn ticks every entity holds at most
\* one status effect per type, and right after an application the one effect of
\* that type has the duration and magnitude of the applied payload.
C6_OneEffectPerType ==
    /\ \A id \in Ids : \A i, j \in 1..Len(entities[id].status_effects) :
         i # j => entities[id].status_effects[i].effect_type
                    # entities[id].status_effects[j].effect_type
    /\ (last.op = "resolve" /\ last.result.success /\ last.result.status_effect # NoPayload)
       => \A t \in Range(last.result.targets) :
            /\ Cardinality(EffectsOfType(entities[t], last.result.status_effect.type)) = 1
            /\ \A i \in EffectsOfType(entities[t], last.result.status_effect.type) :
                 /\ entities[t].status_effects[i].duration = last.result.status_effect.duration
                 /\ entities[t].status_effects[i].magnitude
                      = last.result.status_effect.magnitude

C6_Witness ==
    /\ last.op = "resolve" /\ last.result.success
    /\ last.result.status_effect = Poisoned
    /\ \E t \in Range(last.result.targets) :
         /\ Len(entities[t].status_effects) = 2
         /\ entities[t].status_effects[1].effect_type = "stunned"
         /\ entities[t].status_effects[1].duration = 1
         /\ entities[t].status_effects[2].duration = 2

\* C7: from 0 <= current <= max, after any CAST_SPELL and REST resolutions
\* every entity has 0 <= spell_slots.current <= spell_slots.max; a cast takes
\* one slot and only when current > 0, a short rest adds at most 1 clamped to
\* max, a long rest sets current = max.
C7_SlotsWithinBounds ==
    /\ [](\A id \in Ids : /\ entities[id].spell_slots.current >= 0
                          /\ entities[id].spell_slots.current <= entities[id].spell_slots.max)
    /\ [][ \A id \in Ids :
             LET before == entities[id].spell_slots
                 after == entities'[id].spell_slots
             IN  \/ after = before
                 \/ /\ last'.action.action_type = "cast_spell"
                    /\ before.current > 0
                    /\ after = [before EXCEPT !.current = before.current - 1]
                 \/ /\ last'.action.action_type = "rest"
                    /\ after.max = before.max
                    /\ \/ after.current = before.current + 1 /\ after.current <= after.max
                       \/ after.current = after.max ]_vars

C7_Witness ==
    /\ game_mode = "exploration"
    /\ last.op = "resolve" /\ last.action.action_type = "rest"
    /\ entities["p1"].spell_slots.current = entities["p1"].spell_slots.max
    /\ entities["p1"].hp = entities["p1"].max_hp - 1

\* C8: resolving CAST_SPELL for a caster with spell_slots.current = 0 returns
\* success = false and leaves every entity's hp and status effects and the
\* caster's slot count unchanged.
C8_NoSlotsNoEffect ==
    [][ (/\ last'.op = "resolve" /\ last'.action.action_type = "cast_spell"
         /\ last'.action.actor_id \in Ids
         /\ entities[last'.action.actor_id].spell_slots.current = 0)
        => /\ ~last'.result.success /\ ~last'.result.raised
           /\ \A id \in Ids : /\ entities'[id].hp = entities[id].hp
                              /\ entities'[id].status_effects = entities[id].status_effects
           /\ entities'[last'.action.actor_id].spell_slots.current = 0 ]_vars

C8_Witness ==
    /\ last.op = "resolve" /\ last.action.action_type = "cast_spell"
    /\ last.result.narration = "Spell failed: no spell slots available."
    /\ last.action.parameters.spell_id = "fire_bolt"
    /\ last.action.target_id = "e1"

Malformed(dice_str) == dice_str # << >> /\ ~DiceMatch(Strip(dice_str)).matched

\* C9: when an ATTACK that hits, or a damage or heal CAST_SPELL that has its
\* targets, meets a damage or heal dice string that does not match the dice
\* pattern, resolve_action returns a result with success = false and raises
\* nothing.
C9_MalformedDiceFails ==
    (/\ last.op = "resolve"
     /\ Malformed(ActionDice(last.action))
     /\ \/ last.action.action_type = "attack" /\ last.result.hit
        \/ /\ last.action.action_type = "cast_spell"
           /\ get_spell(last.action.parameters.spell_id).category \in {"damage", "heal"}
           /\ last.result.targets # << >>)
    => ~last.result.raised /\ ~last.result.success

MissingData(action) ==
    \/ /\ action.action_type = "attack"
       /\ \/ action.actor_id \notin Range(participants)
          \/ action.target_id \notin Range(participants)
          \/ action.parameters.attack_id \notin DOMAIN Attacks
    \/ /\ action.action_type = "cast_spell"
       /\ \/ action.actor_id \notin Range(participants)
          \/ action.parameters.spell_id \notin DOMAIN Spells

\* C10: resolving an ATTACK whose actor or target is not in the encounter or
\* whose attack id is not in the content, or a CAST_SPELL whose actor is not in
\* the encounter or whose spell id is not in the content, returns
\* success = false and leaves hp, spell slots, status effects and the turn
\* state as they were.
C10_MissingDataFailsCleanly ==
    [][ (last'.op = "resolve" /\ MissingData(last'.action))
        => /\ ~last'.result.success /\ ~last'.result.raised
           /\ entities' = entities
           /\ UNCHANGED turnVars ]_vars

C10_Witness ==
    /\ last.op = "resolve" /\ game_mode = "encounter" /\ last.enc
    /\ last.action.action_type = "attack"
    /\ last.action.actor_id \in Range(participants)
    /\ last.action.target_id \notin Range(participants)
    /\ last.action.target_id \in Ids
    /\ last.action.parameters.attack_id \in DOMAIN Attacks

\* the summed magnitude of the effects of a type
RECURSIVE TotalMagnitude(_, _)
TotalMagnitude(effects, effect_type) ==
    IF effects = << >> THEN 0
    ELSE (IF Head(effects).effect_type = effect_type THEN Head(effects).magnitude ELSE 0)
         + TotalMagnitude(Tail(effects), effect_type)

TotalToHit(roll, actor, attack) ==
    roll + actor.attack_modifier + TotalMagnitude(actor.status_effects, "strengthened")
    - TotalMagnitude(actor.status_effects, "weakened") + attack.to_hit_modifier

EffectiveAc(target) ==
    target.ac + TotalMagnitude(target.status_effects, "fortified")
    - TotalMagnitude(target.status_effects, "vulnerable")

AttackOutcome(result, actor, target, target_after, attack) ==
    /\ result.roll \in 1..20
    /\ result.hit <=> TotalToHit(result.roll, actor, attack) >= EffectiveAc(target)
    /\ (result.hit /\ result.total >= 0)
       => /\ target_after.hp = target.hp - Min(result.total, target.hp)
          /\ result.damage_applied = Min(result.total, target.hp)

\* C11: for every d20 outcome a resolved ATTACK hits iff roll + attack modifier
\* + strengthened - weakened + to_hit_modifier >= ac + fortified - vulnerable;
\* on a hit with a damage total >= 0 the target's hp drops by exactly
\* min(total, hp before), which damage_applied reports.
C11_HitRule ==
    [][ (last'.op = "resolve" /\ last'.action.action_type = "attack" /\ last'.result.success)
        => AttackOutcome(last'.result, entities[last'.action.actor_id],
                         entities[last'.action.target_id],
                         entities'[last'.action.target_id],
                         Attacks[last'.action.parameters.attack_id]) ]_vars

C11_Witness ==
    /\ last.op = "resolve" /\ last.action.action_type = "attack"
    /\ last.result.hit /\ last.result.roll = 1
    /\ last.result.total = 2 /\ last.result.damage_applied = 1

\* C12: a resolved ATTACK that misses returns success = true with hit = false
\* and leaves the target and every other entity as they were, also when the
\* attack definition carries a status effect.
C12_MissChangesNothing ==
    [][ (/\ last'.op = "resolve" /\ last'.action.action_type = "attack"
         /\ last'.enc
         /\ last'.action.actor_id \in Range(participants)
         /\ last'.action.target_id \in Range(participants)
         /\ last'.action.parameters.attack_id \in DOMAIN Attacks
         /\ ~last'.result.hit)
        => /\ last'.result.success /\ ~last'.result.raised
           /\ last'.result.damage_applied = 0
           /\ entities' = entities
           /\ UNCHANGED << turnVars, globalVars >> ]_vars

C12_Witness ==
    /\ last.op = "resolve" /\ last.action.action_type = "attack"
    /\ last.result.success /\ ~last.result.hit
    /\ last.result.roll = 20
    /\ last.action.parameters.attack_id = "venom_bite"
    /\ Attacks["venom_bite"].status_effect # NoPayload

Magnitude(m) == m
MagnitudeFromZero(m) == IF m > 0 THEN m ELSE 0

\* hp after the damaging effects have acted in list order, each taking its
\* magnitude (counted from zero or as it is) clamped to the hp that is left
RECURSIVE HpAfterEffects(_, _, _)
HpAfterEffects(hp, effects, from_zero) ==
    IF effects = << >> THEN hp
    ELSE HpAfterEffects(
           IF Head(effects).effect_type \in {"poisoned", "burned"}
           THEN hp - Min(IF from_zero THEN MagnitudeFromZero(Head(effects).magnitude)
                         ELSE Magnitude(Head(effects).magnitude), hp)
           ELSE hp,
           Tail(effects), from_zero)

\* the effects left by a tick: every duration one less, those at <= 0 dropped
RECURSIVE EffectsAfterTick(_)
EffectsAfterTick(effects) ==
    IF effects = << >> THEN << >>
    ELSE (IF Head(effects).duration - 1 <= 0 THEN << >>
          ELSE << [Head(effects) EXCEPT !.duration = @ - 1] >>)
         \o EffectsAfterTick(Tail(effects))

\* resolve_start_of_turn n times in a row on an entity
RECURSIVE TickN(_, _)
TickN(e, n) == IF n = 0 THEN e ELSE TickN(resolve_start_of_turn(e), n - 1)

Carries(e, effect_type) ==
    \E i \in 1..Len(e.status_effects) : e.status_effects[i].effect_type = effect_type

EffectLasts(e) ==
    \A i \in 1..Len(e.status_effects) :
        e.status_effects[i].duration >= 1
        => /\ Carries(TickN(e, e.status_effects[i].duration - 1),
                      e.status_effects[i].effect_type)
           /\ ~Carries(TickN(e, e.status_effects[i].duration),
                       e.status_effects[i].effect_type)

TickedEntity(id) == last'.op = "tick" /\ last'.action.actor_id = id

\* C13 as stated: a tick reduces hp by the magnitude of each poisoned/burned
\* effect, clamped to the hp left, then decrements every duration by 1 and
\* removes the effects at <= 0.
C13_TickByMagnitude ==
    [][ \A id \in Ids : TickedEntity(id)
          => /\ entities'[id].hp
                  = HpAfterEffects(entities[id].hp, entities[id].status_effects, FALSE)
             /\ entities'[id].status_effects = EffectsAfterTick(entities[id].status_effects)
      ]_vars

\* C13, amended: a tick reduces hp by max(0, magnitude) of each poisoned/burned
\* effect, clamped to the hp left, then decrements every duration by exactly 1
\* and removes exactly the effects whose duration is then <= 0; an effect of
\* duration d >= 1 is present after d-1 ticks and absent after the d-th.
C13_TickByMagnitudeFromZero ==
    /\ [](\A id \in Ids : EffectLasts(entities[id]))
    /\ [][ \A id \in Ids : TickedEntity(id)
             => /\ entities'[id].hp
                     = HpAfterEffects(entities[id].hp, entities[id].status_effects, TRUE)
                /\ entities'[id].status_effects
                     = EffectsAfterTick(entities[id].status_effects)
                /\ \A other \in Ids \ {id} : entities'[other] = entities[other] ]_vars

C13_Witness ==
    /\ last.op = "tick" /\ last.action.actor_id = "p1"
    /\ entities["p1"].hp = 0
    /\ Len(entities["p1"].status_effects) = 2
    /\ entities["p1"].status_effects[1].effect_type = "poisoned"
    /\ entities["p1"].status_effects[1].duration = 1
    /\ entities["p1"].status_effects[2].effect_type = "fortified"

RestResolved ==
    /\ last'.op = "resolve" /\ last'.action.action_type = "rest"
    /\ game_mode = "exploration" /\ last'.result.success

\* C14: resolving REST in EXPLORATION mode changes hp and spell slots of living
\* party players only: a player at hp 0 before the rest has hp 0 and the same
\* slot count after it, for SHORT and for LONG rests.
C14_RestSkipsTheDead ==
    [][ RestResolved
        => /\ \A id \in Range(players) :
                entities[id].hp = 0
                => /\ entities'[id].hp = 0
                   /\ entities'[id].spell_slots = entities[id].spell_slots
           /\ \A id \in Ids \ Range(players) : entities'[id] = entities[id] ]_vars

Quarter(max_hp) == CHOOSE q \in 0..max_hp : 4 * q <= max_hp /\ max_hp < 4 * (q + 1)

RestedPlayer(before, after, rest_type) ==
    IF rest_type = "short"
    THEN /\ after.hp = Min(before.max_hp,
                           before.hp + (IF Quarter(before.max_hp) >= 1
                                        THEN Quarter(before.max_hp) ELSE 1))
         /\ after.spell_slots.current
              = Min(before.spell_slots.max, before.spell_slots.current + 1)
    ELSE /\ after.hp = before.max_hp
         /\ after.spell_slots.current = before.spell_slots.max

\* C15: for each player with hp > 0 a resolved SHORT rest sets hp to
\* min(max_hp, hp + max(1, floor(max_hp / 4))) and slots to min(max, current + 1),
\* a resolved LONG rest sets hp = max_hp and slots = max; either marks the
\* current room as rested.
C15_RestAmounts ==
    [][ RestResolved
        => /\ \A id \in Range(players) :
                entities[id].hp > 0
                => RestedPlayer(entities[id], entities'[id],
                                last'.action.parameters.rest_type)
           /\ current_room_id \in Range(rested_rooms') ]_vars

C15_Witness ==
    /\ last.op = "resolve" /\ last.action.parameters.rest_type = "short"
    /\ game_mode = "exploration"
    /\ entities["p1"].hp = 3 /\ entities["p1"].spell_slots.current = 2
    /\ entities["p2"].hp = 3
    /\ current_room_id \in Range(rested_rooms)

SpellHp(category, before, total) ==
    IF category = "damage" THEN before.hp - Min(total, before.hp)
    ELSE before.hp + Min(total, before.max_hp - before.hp)

\* C16: a successful damage or heal CAST_SPELL applies its one rolled total to
\* every resolved target: hp changes by min(total, hp before) for damage and
\* by min(total, max_hp - hp before) for heal; the caster's slot count drops
\* by exactly 1 whatever the number of targets.
C16_OneRollForAllTargets ==
    [][ (/\ last'.op = "resolve" /\ last'.action.action_type = "cast_spell"
         /\ last'.result.success
         /\ Spells[last'.action.parameters.spell_id].category \in {"damage", "heal"})
        => /\ last'.result.targets # << >>
           /\ \A id \in Ids :
                entities'[id].hp
                  = IF id \in Range(last'.result.targets)
                    THEN SpellHp(Spells[last'.action.parameters.spell_id].category,
                                 entities[id], last'.result.total)
                    ELSE entities[id].hp
           /\ entities'[last'.action.actor_id].spell_slots.current
                = entities[last'.action.actor_id].spell_slots.current - 1 ]_vars

C16_Witness ==
    /\ last.op = "resolve" /\ last.action.action_type = "cast_spell"
    /\ last.result.success
    /\ last.action.parameters.spell_id = "mass_heal"
    /\ last.result.targets = << "p1", "p2" >>
    /\ entities["p1"].hp = 3 /\ entities["p2"].hp = 3
    /\ entities[last.action.actor_id].spell_slots.current = 0

\* the living participants on the side of the caster, or on the other side
LivingOnSide(caster, same) ==
    { id \in Range(participants) :
        /\ entities[id].hp > 0
        /\ (entities[id].entity_type = entities[caster].entity_type) <=> same }

\* C17: with target rule 'allies' the resolved targets are exactly the living
\* participants on the caster's own side, with rule 'enemies' exactly those of
\* the opposing side, whether the caster is a player or an enemy.
C17_SidesRelativeToCaster ==
    [][ (/\ last'.op = "resolve" /\ last'.action.action_type = "cast_spell"
         /\ last'.result.success
         /\ Spells[last'.action.parameters.spell_id].target \in {"allies", "enemies"})
        => Range(last'.result.targets)
             = LivingOnSide(last'.action.actor_id,
                            Spells[last'.action.parameters.spell_id].target = "allies")
      ]_vars

\* C18: whenever an ATTACK, a CAST_SPELL or a start-of-turn tick made with a
\* logger takes an entity's hp from above 0 to 0, an entity-died event for it
\* is reported during the operation, and none is reported for an entity whose
\* hp is above 0.
C18_DeathsAreLogged ==
    [][ (last'.op \in {"resolve", "tick"}
           /\ last'.action.action_type \in {"attack", "cast_spell", None})
        => /\ \A id \in Ids :
                (entities[id].hp > 0 /\ entities'[id].hp = 0)
                => id \in Range(last'.result.died)
           /\ \A id \in Range(last'.result.died) : ~(entities'[id].hp > 0) ]_vars

\* the living participants of one entity type, when an encounter state is given
LivingOfType(entity_type) ==
    IF last.enc
    THEN { id \in Range(participants) :
             entities[id].hp > 0 /\ entities[id].entity_type = entity_type }
    ELSE {}

TheOne(S) == CHOOSE id \in S : TRUE

MappedAttack == last.op = "map" /\ last.parsed.intent = "attack" /\ last.mapper.actor # None

\* the attack and the target a mapped ATTACK has after inference, None if absent
AttackAfterInference ==
    IF last.parsed.attack_id # None THEN last.parsed.attack_id
    ELSE IF Len(entities[last.mapper.actor].known_attacks) = 1
    THEN entities[last.mapper.actor].known_attacks[1]
    ELSE None

TargetAfterInference ==
    IF last.parsed.target_id # None THEN last.parsed.target_id
    ELSE IF Cardinality(LivingOfType("enemy")) = 1 THEN TheOne(LivingOfType("enemy"))
    ELSE None

Clarification ==
    /\ last.mapping.action = NoAction
    /\ last.mapping.needs_clarification
    /\ last.mapping.clarification_prompt # None

\* C19: for an ATTACK intent with an actor, a missing attack id is inferred iff
\* the actor knows exactly one attack and a missing target iff exactly one
\* living enemy exists in the encounter; the mapper returns ok (with that
\* attack and target) iff both are present after inference, and a
\* clarification with no action otherwise -- always so with two or more
\* living enemies and no parsed target.
C19_AttackInference ==
    MappedAttack =>
        /\ IF AttackAfterInference # None /\ TargetAfterInference # None
           THEN /\ last.mapping.action
                     = AttackAction(last.mapper.actor, TargetAfterInference,
                                    AttackAfterInference)
                /\ ~last.mapping.needs_clarification
                /\ last.mapping.errors = << >>
           ELSE Clarification
        /\ (last.parsed.target_id = None /\ Cardinality(LivingOfType("enemy")) >= 2)
           => Clarification

\* an ATTACK with neither id parsed mapped to an action, both being inferred
C19_Witness ==
    /\ MappedAttack
    /\ last.parsed.attack_id = None /\ last.parsed.target_id = None
    /\ last.mapping.action.action_type = "attack"
    /\ last.mapping.action.target_id \in LivingOfType("enemy")
    /\ last.mapping.action.parameters.attack_id = "staff_strike"

\* the spell a mapped CAST_SPELL is on: the parsed one, or the only one known
SpellAfterInference ==
    IF last.parsed.spell_id # None THEN last.parsed.spell_id
    ELSE IF Len(entities[last.mapper.actor].known_spells) = 1
    THEN entities[last.mapper.actor].known_spells[1]
    ELSE None

\* a CAST_SPELL intent with an actor on a spell of the content whose rule,
\* read through the data loader, is `enemy` or `ally`
MappedSingleTargetSpell ==
    /\ last.op = "map" /\ last.parsed.intent = "cast_spell" /\ last.mapper.actor # None
    /\ last.mapper.data_loader
    /\ SpellAfterInference \in DOMAIN Spells
    /\ Spells[SpellAfterInference].target \in {"enemy", "ally"}

\* the entities the rule lets the mapper pick from
SpellCandidates ==
    IF Spells[SpellAfterInference].target = "enemy" THEN LivingOfType("enemy")
    ELSE LivingOfType(entities[last.mapper.actor].entity_type)

\* C20: for a CAST_SPELL intent on a spell with rule `enemy` or `ally` and no
\* parsed target, the mapper returns ok iff exactly one living enemy exists
\* (`enemy`) or exactly one living entity on the actor's side exists (`ally`),
\* the action's target being that entity, and a clarification with no action
\* otherwise; a parsed target is kept as is.
C20_SpellTargetInference ==
    MappedSingleTargetSpell =>
        IF last.parsed.target_id # None
        THEN last.mapping
               = mapping_ok(CastSpellAction(last.mapper.actor, SpellAfterInference,
                                            last.parsed.target_id))
        ELSE IF Cardinality(SpellCandidates) = 1
        THEN last.mapping
               = mapping_ok(CastSpellAction(last.mapper.actor, SpellAfterInference,
                                            TheOne(SpellCandidates)))
        ELSE Clarification

\* an enemy's `ally` spell with no parsed target, mapped onto the one living enemy
\* while a living player is in the encounter
C20_Witness ==
    /\ MappedSingleTargetSpell
    /\ last.parsed.target_id = None
    /\ Spells[SpellAfterInference].target = "ally"
    /\ entities[last.mapper.actor].entity_type = "enemy"
    /\ LivingOfType("player") # {}
    /\ last.mapping.action.action_type = "cast_spell"
    /\ last.mapping.action.target_id \in LivingOfType("enemy")

\* a CAST_SPELL intent with an actor on a spell of the content, its rule read
\* through the data loader
MappedSpell(rules) ==
    /\ last.op = "map" /\ last.parsed.intent = "cast_spell" /\ last.mapper.actor # None
    /\ last.mapper.data_loader
    /\ SpellAfterInference \in DOMAIN Spells
    /\ Spells[SpellAfterInference].target \in rules

AoeError == << "AoE spell should not specify a single target." >>

\* C21: for a CAST_SPELL intent on a spell whose rule is `enemies` or `allies`
\* the mapper returns ok with an action whose target_id is none, whatever
\* target id was parsed; validation of that action never fails on the rule
\* that an AoE spell supplies no target (and accepts it for a caster that
\* knows the spell and has a slot).
C21_AoeTargetCleared ==
    MappedSpell({"enemies", "allies"}) =>
        /\ last.mapping
             = mapping_ok(CastSpellAction(last.mapper.actor, SpellAfterInference, None))
        /\ validate_cast_spell_action(last.mapping.action,
                                      entities[last.mapper.actor]).errors # AoeError
        /\ (/\ SpellAfterInference \in Range(entities[last.mapper.actor].known_spells)
            /\ entities[last.mapper.actor].spell_slots.current > 0)
           => validate_cast_spell_action(last.mapping.action,
                                         entities[last.mapper.actor]).is_valid

\* an AoE spell mapped with a parsed target, for a caster validation accepts
C21_Witness ==
    /\ MappedSpell({"enemies", "allies"})
    /\ last.parsed.target_id # None
    /\ last.mapping.action.action_type = "cast_spell"
    /\ last.mapping.action.target_id = None
    /\ validate_cast_spell_action(last.mapping.action,
                                  entities[last.mapper.actor]).is_valid

\* C22: for a CAST_SPELL intent on a spell whose rule is `self` the mapper
\* returns ok with target_id equal to the actor's id, whether no target or a
\* different target was parsed.
C22_SelfTargetForced ==
    MappedSpell({"self"}) =>
        last.mapping
          = mapping_ok(CastSpellAction(last.mapper.actor, SpellAfterInference,
                                       last.mapper.actor))

\* a `self` spell mapped onto the actor although another entity was parsed
C22_Witness ==
    /\ MappedSpell({"self"})
    /\ last.parsed.target_id \notin {None, last.mapper.actor}
    /\ last.mapping.action.action_type = "cast_spell"
    /\ last.mapping.action.target_id = last.mapper.actor

\* a MOVE intent with an actor and no parsed room id, the mapper having the
\* global state and the content
MappedMove ==
    /\ last.op = "map" /\ last.parsed.intent = "move" /\ last.mapper.actor # None
    /\ last.parsed.room_id = None
    /\ last.mapper.global_state /\ last.mapper.data_loader

RoomKnown ==
    /\ current_dungeon_id \in DOMAIN Dungeons
    /\ current_room_id \in DOMAIN Dungeons[current_dungeon_id].rooms

Connections == Dungeons[current_dungeon_id].rooms[current_room_id].connections

\* C23: for a MOVE intent with an actor and no parsed room id the mapper
\* returns ok iff the current room of the current dungeon has exactly one
\* connection, the action's target being that connection; with zero or
\* several connections, or an unknown dungeon or room, it returns a
\* clarification with no action.
C23_MoveInference ==
    MappedMove =>
        IF RoomKnown /\ Len(Connections) = 1
        THEN last.mapping = mapping_ok(MoveAction(last.mapper.actor, Connections[1]))
        ELSE Clarification

\* a MOVE with no room mapped onto the only connection of the current room
C23_Witness ==
    /\ MappedMove
    /\ RoomKnown /\ Len(Connections) = 1
    /\ last.mapping.action.action_type = "move"
    /\ last.mapping.action.target_id = "hall"

\* C24: validate_action never mutates state: every field of the global
\* state, of the encounter state and of every entity is the same after the
\* call as before, whether the result is valid or not.
C24_ValidationIsPure ==
    [][ last'.op = "validate" => UNCHANGED << globalVars, entities, turnVars >> ]_vars

\* a CAST_SPELL accepted by validation, the caster's slots being what they were
C24_Witness ==
    /\ last.op = "validate"
    /\ last.action.action_type = "cast_spell"
    /\ last.validation.is_valid
    /\ entities[last.action.actor_id].spell_slots.current >= 1

\* C25: for every Entity, GlobalGameState, EncounterState and Action value x,
\* from_dict(to_dict(x)) equals x field for field (status effects in order,
\* spell slots, rested and visited rooms, round, initiative order, active
\* entity, parameters), the enums being written as their string tag.
C25_RoundTrip ==
    last.op = "round_trip" =>
        /\ last.dict.restored = last.dict.value
        /\ last.dict.kind = "Entity"
           => last.dict.data.type = entities[last.dict.value.entity_id].entity_type
        /\ last.dict.kind = "GlobalGameState" => last.dict.data.game_mode = game_mode
        /\ last.dict.kind = "Action"
           => last.dict.data.action_type
                \in {"move", "attack", "cast_spell", "rest", "end_turn", "explore"}

\* an encounter restored with a participant that carries several status
\* effects, in their order
C25_Witness ==
    /\ last.op = "round_trip"
    /\ last.dict.kind = "EncounterState"
    /\ \E i \in 1..Len(last.dict.restored.entities) :
         /\ Len(last.dict.restored.entities[i].status_effects) >= 2
         /\ last.dict.restored.entities[i].status_effects
              = entities[participants[i]].status_effects
    /\ last.dict.restored.initiative_order = initiative_order
    /\ last.dict.restored.combat_log # << >>

\* the notation of a roll_dice call is one the dice pattern accepts: NdM,
\* NdM+K or NdM-K, blanks at the ends being stripped
Accepted(i) ==
    /\ i.n >= 0 /\ i.m >= 0 /\ i.sep = "d" /\ i.blanks # "inside"
    /\ i.modifier.sign = "" \/ i.modifier.k >= 0

\* the signed modifier the notation stands for
SignedK(i) ==
    IF i.modifier.sign = "" THEN 0
    ELSE IF i.modifier.sign = "-" THEN 0 - i.modifier.k
    ELSE i.modifier.k

\* N individual rolls each in 1..M, and a total of their sum plus K
RolledAsWritten(i, result) ==
    /\ ~result.raised
    /\ Len(result.rolls) = i.n
    /\ \A j \in 1..Len(result.rolls) : result.rolls[j] \in 1..i.m
    /\ result.modifier = SignedK(i)
    /\ result.total = SumSeq(result.rolls) + SignedK(i)

Rejected(result) == result.raised /\ result.rolls = << >>

\* C26: for every dice notation NdM+K or NdM-K accepted by the dice pattern,
\* roll_dice returns exactly N individual rolls each in 1..M and a total
\* equal to their sum plus the signed modifier K (0 when absent); a string
\* that does not match the pattern is rejected with an error and no roll.
C26_RollAsWritten ==
    last.op = "roll" =>
        IF Accepted(last.roll.input)
        THEN RolledAsWritten(last.roll.input, last.roll.result)
        ELSE Rejected(last.roll.result)

\* C26 as the code has it: the same for the accepted notations that can be
\* rolled (M >= 1, or no dice at all); an accepted notation of one or more
\* dice with 0 sides is rejected with an error and no roll, like a string
\* that does not match.
C26_RollAsWrittenWithSides ==
    last.op = "roll" =>
        IF Accepted(last.roll.input) /\ (last.roll.input.m >= 1 \/ last.roll.input.n = 0)
        THEN RolledAsWritten(last.roll.input, last.roll.result)
        ELSE Rejected(last.roll.result)

\* two dice rolled differently with a negative modifier, from a notation
\* with blanks around it
C26_Witness ==
    /\ last.op = "roll"
    /\ Accepted(last.roll.input)
    /\ last.roll.input.blanks = "ends"
    /\ last.roll.input.modifier.sign = "-" /\ last.roll.input.modifier.k = 2
    /\ last.roll.result.rolls = << 1, 3 >>
    /\ last.roll.result.total = 2

\* the entity of the latest take_damage / heal call, and the change of its hp
Called == entities[last.call.entity_id]

HpChange ==
    IF Called.hp >= last.call.hp_before THEN Called.hp - last.call.hp_before
    ELSE last.call.hp_before - Called.hp

\* take_damage(amount) leaves hp = max(0, hp_before - amount) and returns
\* min(amount, hp_before); heal(amount) leaves hp = min(max_hp, hp_before +
\* amount) and returns min(amount, max_hp - hp_before); the returned value is
\* the absolute change in hp
DamagedOrHealedByAmount ==
    /\ last.op = "take_damage"
       => /\ Called.hp = IF last.call.hp_before - last.call.amount >= 0
                         THEN last.call.hp_before - last.call.amount ELSE 0
          /\ last.call.returned = IF last.call.amount <= last.call.hp_before
                                  THEN last.call.amount ELSE last.call.hp_before
    /\ last.op = "heal"
       => /\ Called.hp = IF last.call.hp_before + last.call.amount <= Called.max_hp
                         THEN last.call.hp_before + last.call.amount ELSE Called.max_hp
          /\ last.call.returned
               = IF last.call.amount <= Called.max_hp - last.call.hp_before
                 THEN last.call.amount ELSE Called.max_hp - last.call.hp_before
    /\ last.call.returned = HpChange

C28_LoggerIndependence ==
    last.unlogged.given =>
        /\ entities = last.unlogged.entities
        /\ rested_rooms = last.unlogged.rested_rooms
        /\ active_entity_id = last.unlogged.active
        /\ round = last.unlogged.round
        /\ [last.result EXCEPT !.died = << >>] = last.unlogged.result

\* an attack that applied a status effect and killed its target, the death
\* being logged in the call with a logger
C28_Witness ==
    /\ last.unlogged.given
    /\ last.result.success
    /\ last.result.died # << >>
    /\ last.result.status_effect # NoPayload

\* the mapper was called with a REST intent and an actor
MappedRest ==
    /\ last.op = "map"
    /\ last.parsed.intent = "rest"
    /\ last.mapper.actor # None

\* C29: for a REST intent with an actor and no parsed rest type the mapper
\* returns ok with a REST action whose rest_type parameter is 'short'; with a
\* parsed rest type (the parser extracts 'short' or 'long') the action carries
\* that type.
C29_RestDefault ==
    MappedRest =>
        /\ last.parsed.rest_type = None =>
                last.mapping = mapping_ok(RestAction(last.mapper.actor, "short"))
        /\ last.parsed.rest_type \in {"short", "long"} =>
                last.mapping = mapping_ok(RestAction(last.mapper.actor,
                                                    last.parsed.rest_type))

\* a REST with no parsed rest type mapped onto a short rest
C29_Witness ==
    /\ MappedRest
    /\ last.parsed.rest_type = None
    /\ last.mapping.action.action_type = "rest"
    /\ last.mapping.action.parameters.rest_type = "short"

\* C30: in an encounter driven only by validate-then-resolve steps, in which
\* the active entity issues END_TURN whenever validation would accept it,
\* every participant with hp > 0 eventually becomes the active entity again
\* (unless it is defeated first, one side is defeated, or the rounds played
\* are over)
C30_RotationNeverStuck ==
    \A id \in {"p1", "p2", "e1"} :
        (InEncounter(id) /\ entities[id].hp > 0)
            ~> \/ active_entity_id = id
               \/ entities[id].hp = 0
               \/ EncounterOver
               \/ round = MaxRound

\* C31: every action that validate_action accepts in a state is resolved with
\* success = true when resolve_action is called on it in that same state
\* (calls that a malformed dice string makes raise are left aside)
C31_AcceptedIsResolved ==
    (last.op = "resolve" /\ last.validation.is_valid /\ ~last.result.raised)
        => last.result.success

\* C32: whenever resolving a CAST_SPELL returns success = false, for any cause,
\* the caster's spell_slots.current is the same as before the call
C32_FailedSpellKeepsSlots ==
    [][ (/\ last'.op = "resolve"
         /\ last'.action.action_type = "cast_spell"
         /\ last'.action.actor_id \in DOMAIN entities
         /\ ~last'.result.raised
         /\ ~last'.result.success)
        => entities'[last'.action.actor_id].spell_slots.current
             = entities[last'.action.actor_id].spell_slots.current ]_vars

ValidatedCombat ==
    last.op = "validate" /\ last.action.action_type \in {"attack", "cast_spell"}

\* the action's target id names a living participant of the encounter
LivingTarget ==
    /\ InEncounter(last.action.target_id)
    /\ entities[last.action.target_id].hp > 0

\* C34: every ATTACK or CAST_SPELL that validation accepts and that carries a
\* target id names a participant that exists in the encounter and has hp > 0;
\* an ATTACK with no target id, an unknown target or a defeated target is
\* rejected with a non-empty error list
C34_AcceptedTargetLives ==
    ValidatedCombat =>
        /\ (last.validation.is_valid /\ ~Falsy(last.action.target_id)) => LivingTarget
        /\ (last.action.action_type = "attack" /\ ~LivingTarget)
              => ~last.validation.is_valid /\ last.validation.errors # << >>

\* an accepted spell aimed at the living enemy e1
C34_Witness ==
    /\ ValidatedCombat
    /\ last.validation.is_valid
    /\ last.action.action_type = "cast_spell"
    /\ last.action.target_id = "e1"
    /\ entities["e1"].hp > 0

\* validate_action accepted a CAST_SPELL
AcceptedSpell ==
    /\ last.op = "validate"
    /\ last.action.action_type = "cast_spell"
    /\ last.validation.is_valid

\* C35: every CAST_SPELL that validation accepts has a spell id the actor
\* knows and that resolves in content, a caster with spell_slots.current >= 1,
\* a target id when the spell's rule is self, enemy or ally, and no target id
\* when the rule is enemies or allies
C35_AcceptedSpellIsCastable ==
    AcceptedSpell =>
        LET spell_id == last.action.parameters.spell_id
            caster == entities[last.action.actor_id]
        IN  /\ spell_id \in Range(caster.known_spells)
            /\ spell_id \in DOMAIN Spells
            /\ caster.spell_slots.current >= 1
            /\ Spells[spell_id].target \in {"self", "enemy", "ally"}
                  => last.action.target_id \notin {None, ""}
            /\ Spells[spell_id].target \in {"enemies", "allies"}
                  => last.action.target_id \in {None, ""}

\* an accepted AoE spell, cast with no target id
C35_Witness ==
    /\ AcceptedSpell
    /\ last.action.parameters.spell_id = "poison_cloud"
    /\ last.action.target_id = None

\* C36: resolving END_TURN in ENCOUNTER mode always returns success = true and
\* changes only active_entity_id and round: every entity (hp, spell slots,
\* status effects and their durations), the initiative order and the
\* participant list are unchanged, so END_TURN itself applies no tick
C36_EndTurnFrame ==
    [][ (/\ last'.op = "resolve"
         /\ last'.action.action_type = "end_turn"
         /\ game_mode = "encounter")
        => /\ last'.result.success
           /\ entities' = entities
           /\ initiative_order' = initiative_order
           /\ participants' = participants
           /\ UNCHANGED globalVars ]_vars

\* a turn ended onto an entity that carries a damaging status effect
C36_Witness ==
    /\ last.op = "resolve" /\ last.action.action_type = "end_turn"
    /\ last.result.success
    /\ active_entity_id \in DOMAIN entities
    /\ has_status_effect(entities[active_entity_id], "poisoned")
    /\ entities[active_entity_id].hp > 0
    /\ round = 2

\* an ATTACK, a CAST_SPELL or a REST was resolved, or a start-of-turn tick run
ResolvedOrTicked ==
    \/ last'.op = "tick"
    \/ /\ last'.op = "resolve"
       /\ last'.action.action_type \in {"attack", "cast_spell", "rest"}

\* C37: resolving ATTACK, CAST_SPELL or REST, or running a start-of-turn tick,
\* never changes active_entity_id, round, initiative_order or the participants
\* of the encounter, whether the operation succeeds or fails
C37_TurnFrame ==
    [][ ResolvedOrTicked => UNCHANGED turnVars ]_vars

\* an attack that defeated its target, the turn staying with the attacker
C37_Witness ==
    /\ last.op = "resolve" /\ last.action.action_type = "attack"
    /\ last.result.success /\ last.result.died # << >>
    /\ active_entity_id = last.action.actor_id

\* validate_action was called on a MOVE in EXPLORATION mode
ValidatedMove ==
    /\ last.op = "validate"
    /\ last.action.action_type = "move"
    /\ game_mode = "exploration"

\* the MOVE names a room of the current dungeon that the current room leads to
MoveAllowed ==
    /\ RoomKnown
    /\ last.action.target_id \notin {None, ""}
    /\ last.action.target_id \in DOMAIN Dungeons[current_dungeon_id].rooms
    /\ \E i \in 1..Len(Connections) : Connections[i] = last.action.target_id

\* C38: in EXPLORATION mode validation accepts a MOVE iff the current dungeon
\* is loaded, the current room exists in it, a target room id is given, the
\* target room exists in the dungeon and the target id is in the current
\* room's connections; every rejection carries a non-empty error list
C38_MoveAccepted ==
    ValidatedMove =>
        /\ last.validation.is_valid <=> MoveAllowed
        /\ ~last.validation.is_valid => last.validation.errors # << >>

\* a MOVE from the hall to the shrine, accepted
C38_Witness ==
    /\ ValidatedMove
    /\ current_room_id = "hall"
    /\ last.action.target_id = "shrine"
    /\ last.validation.is_valid

\* the highest of the scores of the latest _pick_intent call
TopScore == CHOOSE x \in Range(last.pick.scores) : \A y \in Range(last.pick.scores) : y <= x

\* the intents that have the highest score
TopIntents == { IntentOrder[i] : i \in { j \in 1..Len(last.pick.scores) :
                                          last.pick.scores[j] = TopScore } }

\* C39: given the six per-intent scores, the parser picks an intent with the
\* highest score; the intent is 'unknown' with confidence 0 and is_ambiguous
\* false iff the highest score is 0; otherwise is_ambiguous is true iff at
\* least two intents share the highest score, confidence being 0.6 when
\* ambiguous and min(1.0, 0.5 + top_score / 6) when not (in thirtieths: 18,
\* and the smaller of 30 and 15 + 5 * top_score)
C39_PickIntent ==
    last.op = "pick" =>
        /\ last.pick.result = Picked("unknown", 0, FALSE) <=> TopScore = 0
        /\ TopScore > 0 =>
              /\ last.pick.result.intent \in TopIntents
              /\ last.pick.result.is_ambiguous <=> Cardinality(TopIntents) >= 2
              /\ last.pick.result.confidence =
                    IF Cardinality(TopIntents) >= 2 THEN 18
                    ELSE IF 15 + 5 * TopScore > 30 THEN 30 ELSE 15 + 5 * TopScore

\* one intent alone at the top with a score that caps the confidence at 1.0
C39_Witness ==
    /\ last.op = "pick"
    /\ last.pick.scores = << 1, 4, 3, 0, 0, 1 >>
    /\ last.pick.result = Picked("attack", 30, FALSE)

\* candidate i of the latest _find_name_match call occurs in the input: its
\* normalized name is a non-empty substring of the normalized input
Occurs(i) ==
    /\ normalize_text(last.match.name_map[i].name) # << >>
    /\ Contains(normalize_text(last.match.name_map[i].name), last.match.normalized)

Candidates == 1..Len(last.match.name_map)

\* C40: name matching returns a candidate whose normalized name is a non-empty
\* substring of the normalized input and such that no candidate with a
\* strictly longer normalized name is also a substring of the input; it
\* returns no match iff no candidate's normalized name occurs in the input
C40_LongestNameWins ==
    last.op = "match" =>
        /\ last.match.result.found =>
              \E i \in Candidates :
                  /\ last.match.name_map[i].item_id = last.match.result.item_id
                  /\ last.match.name_map[i].name = last.match.result.name
                  /\ Occurs(i)
                  /\ \A j \in Candidates :
                        Len(normalize_text(last.match.name_map[j].name))
                          > Len(normalize_text(last.match.name_map[i].name))
                        => ~Occurs(j)
        /\ ~last.match.result.found <=> \A i \in Candidates : ~Occurs(i)

\* 'a' and 'ab' both occur in the input, 'a' coming first in the map: the
\* longer name is returned
C40_Witness ==
    /\ last.op = "match"
    /\ last.match.normalized = << "a", "b" >>
    /\ last.match.name_map = << [item_id |-> "i1", name |-> << "A" >>],
                                [item_id |-> "i2", name |-> << "a", "b" >>] >>
    /\ last.match.result = Matched("i2", << "a", "b" >>)


=============================================================================
